---- MODULE Spec2Model ----
(***************************************************************************)
(* Pipeline Executor of the-ihsan/job-pipeline (utils/job.ts, class Job)   *)
(* and the persistence helpers it calls (utils/file.ts).                   *)
(*                                                                         *)
(* A behaviour is: new Job(init, state); a chain of pipe / pipeSliced /    *)
(* pipeEach / pipeEachFiltered / sort / saveAs registrations; one run().   *)
(* run() is followed await by await: every call of a caller-supplied       *)
(* function or of a save helper is started by one action and settled by    *)
(* another.                                                                *)
(***************************************************************************)
EXTENDS Integers, Sequences, FiniteSets, TLC

(***************************************************************************)
(* Bounds of the model.                                                    *)
(***************************************************************************)
\* longest chain of registered steps
MaxSteps == 2
\* longest array the initializer returns
MaxLen == 3
\* the work of a run, each registered step visiting each element of what the
\* initializer returns: long chains run over short arrays, short chains over
\* long ones
MaxWork == 6
\* largest sliceSize passed to pipeSliced
MaxSlice == 2
\* most pages open in the browser at once
MaxTabs == 3
\* most commands the operator gives after the first startup
MaxCmds == 4

(***************************************************************************)
(* JavaScript values.  Every value is a record of the same shape:          *)
(*   t  the type tag: "undefined", "null", "number", "string", "array"     *)
(*   n  the number (t = "number"), s the string (t = "string"),            *)
(*   a  the elements (t = "array").                                        *)
(* NaN is the number whose s is "NaN".                                     *)
(***************************************************************************)
Undefined == [t |-> "undefined", n |-> 0, s |-> "", a |-> <<>>]
Null == [t |-> "null", n |-> 0, s |-> "", a |-> <<>>]
Num(k) == [t |-> "number", n |-> k, s |-> "", a |-> <<>>]
NaN == [t |-> "number", n |-> 0, s |-> "NaN", a |-> <<>>]
Str(x) == [t |-> "string", n |-> 0, s |-> x, a |-> <<>>]
Arr(q) == [t |-> "array", n |-> 0, s |-> "", a |-> q]

\* Array.isArray(v)
IsArray(v) == v.t = "array"

\* a truth test under which an empty array is false
TruthyNonEmpty(v) ==
  CASE v.t = "undefined" -> FALSE
    [] v.t = "null" -> FALSE
    [] v.t = "number" -> v.n # 0 /\ v.s # "NaN"
    [] v.t = "string" -> v.s # ""
    [] OTHER -> v.a # <<>>

\* ToBoolean(v): what `if (v)` and `!v` test.  Arrays and objects are truthy,
\* the empty array included.
Truthy(v) ==
  CASE v.t = "undefined" -> FALSE
    [] v.t = "null" -> FALSE
    [] v.t = "number" -> v.n # 0 /\ v.s # "NaN"
    [] v.t = "string" -> v.s # ""
    [] OTHER -> TRUE

\* Number.prototype.toString for a non-negative integer
RECURSIVE NatToString(_)
NatToString(k) ==
  LET Digit(d) == <<"0", "1", "2", "3", "4", "5", "6", "7", "8", "9">>[d + 1]
  IN  IF k < 10 THEN Digit(k) ELSE NatToString(k \div 10) \o Digit(k % 10)

\* the one-character strings of s, for the strings of the model
Chars(s) == IF s = "" THEN <<>> ELSE <<s>>

\* the keys `for (const i in v)` visits, in the order it visits them: the
\* indices of an array or of a string, as strings; none for a primitive
ForInKeys(v) ==
  CASE v.t = "array" -> [j \in 1..Len(v.a) |-> NatToString(j - 1)]
    [] v.t = "string" -> [j \in 1..Len(Chars(v.s)) |-> NatToString(j - 1)]
    [] OTHER -> <<>>

\* v[i] for the j-th key of ForInKeys(v)
ForInGet(v, j) == IF v.t = "array" THEN v.a[j] ELSE Str(Chars(v.s)[j])

\* a window that takes the element after its end as well
SliceInclusive(q, i, sliceSize) ==
  SubSeq(q, i + 1, IF i + sliceSize + 1 < Len(q) THEN i + sliceSize + 1 ELSE Len(q))

\* data.slice(i, i + sliceSize) of an array's elements, i counted from 0; a
\* negative start or end counts from the end of the array
Slice(q, i, sliceSize) ==
  LET Relative(k) == IF k < 0 THEN (IF Len(q) + k < 0 THEN 0 ELSE Len(q) + k)
                     ELSE IF k < Len(q) THEN k ELSE Len(q)
  IN  SubSeq(q, Relative(i) + 1, Relative(i + sliceSize))

(***************************************************************************)
(* Errors.                                                                 *)
(***************************************************************************)
Err(name, message) == [name |-> name, message |-> message]
NoError == Err("", "")

(***************************************************************************)
(* The outcome of a call: a returned value or a thrown error.              *)
(***************************************************************************)
Return(v) == [v |-> v, ok |-> TRUE, e |-> NoError]
Throw(e) == [v |-> Undefined, ok |-> FALSE, e |-> e]
\* a save helper's promise resolves to nothing; content is what it wrote
Written(content) == [v |-> Undefined, ok |-> TRUE, e |-> NoError, content |-> content]

(***************************************************************************)
(* Conversions of the language that the functions below use.               *)
(***************************************************************************)
\* String(v); Array.prototype.join writes null and undefined elements as ""
RECURSIVE ToStr(_)
RECURSIVE Join(_)
Join(q) ==
  IF q = <<>> THEN ""
  ELSE LET h == IF q[1].t \in {"undefined", "null"} THEN "" ELSE ToStr(q[1])
       IN IF Len(q) = 1 THEN h ELSE h \o "," \o Join(Tail(q))
ToStr(v) ==
  CASE v.t = "undefined" -> "undefined"
    [] v.t = "null" -> "null"
    [] v.t = "number" -> IF v.s = "NaN" THEN "NaN" ELSE NatToString(v.n)
    [] v.t = "string" -> v.s
    [] OTHER -> Join(v.a)

\* Number(v): a number value, NaN where the text is not numeric
RECURSIVE ToNumber(_)
ToNumber(v) ==
  CASE v.t = "undefined" -> NaN
    [] v.t = "null" -> Num(0)
    [] v.t = "number" -> v
    [] v.t = "string" -> IF v.s = "" THEN Num(0) ELSE NaN
    [] OTHER -> IF v.a = <<>> THEN Num(0)
                ELSE IF Len(v.a) > 1 THEN NaN
                ELSE IF v.a[1].t \in {"undefined", "null"} THEN Num(0)
                ELSE ToNumber(v.a[1])

(***************************************************************************)
(* Caller-supplied functions.  The executor takes any function; these are  *)
(* the ones the model registers.                                           *)
(***************************************************************************)
\* JobStep          first:  data => data[0]
\* JobStepSliced    id:     slice => slice
\*                  double: slice => slice.map(x => x * 2)
\*                  none:   slice => undefined (jobs/search-helper processSlice)
\*                  skip:   (slice, i) => i === 0 ? slice : i === 1 ? null : slice.length
\* JobStepEach      id:     x => x
\*                  falsy:  (x, state, i) => [null, '', 0][i]
\*                  must:   x => { if (!x) throw new Error('bad entry'); return x; }
EachFns == {"id", "falsy", "must"}
\* JobStepSort      asc:    (a, b) => (Number(a) || 0) - (Number(b) || 0)

ApplyStep(fn, data) ==
  CASE data.t \in {"undefined", "null"} ->
         Throw(Err("TypeError", "Cannot read properties of " \o data.t))
    [] data.t = "array" -> Return(IF data.a = <<>> THEN Undefined ELSE data.a[1])
    [] data.t = "string" -> Return(IF data.s = "" THEN Undefined ELSE Str(data.s))
    [] OTHER -> Return(Undefined)

ApplySliced(fn, slice, startIndex) ==
  LET Double(v) == LET k == ToNumber(v) IN IF k.s = "NaN" THEN NaN ELSE Num(2 * k.n)
  IN
  CASE fn = "id" -> Return(Arr(slice))
    [] fn = "double" -> Return(Arr([j \in 1..Len(slice) |-> Double(slice[j])]))
    [] fn = "skip" -> Return(IF startIndex = 0 THEN Arr(slice)
                             ELSE IF startIndex = 1 THEN Null ELSE Num(Len(slice)))
    [] OTHER -> Return(Undefined)

ApplyEach(fn, item, index) ==
  CASE fn = "id" -> Return(item)
    [] fn = "falsy" ->
         Return(CASE index = "0" -> Null
                  [] index = "1" -> Str("")
                  [] index = "2" -> Num(0)
                  [] OTHER -> Undefined)
    [] OTHER -> IF Truthy(item) THEN Return(item) ELSE Throw(Err("Error", "bad entry"))

(***************************************************************************)
(* Array.prototype.sort(fn): undefined elements go last without being      *)
(* compared; the others are ordered by fn, equal ones keeping their order. *)
(* SortKey is the number the comparator asc orders by.                     *)
(***************************************************************************)
RECURSIVE Insert(_, _, _)
Insert(fn, sorted, x) ==
  LET SortKey(v) == LET k == ToNumber(v) IN IF k.s = "NaN" THEN 0 ELSE k.n
  IN  IF sorted = <<>> THEN <<x>>
      ELSE IF SortKey(sorted[Len(sorted)]) - SortKey(x) <= 0 THEN Append(sorted, x)
      ELSE Append(Insert(fn, SubSeq(sorted, 1, Len(sorted) - 1), x), sorted[Len(sorted)])

RECURSIVE SortDefined(_, _)
SortDefined(fn, q) ==
  IF q = <<>> THEN <<>>
  ELSE Insert(fn, SortDefined(fn, SubSeq(q, 1, Len(q) - 1)), q[Len(q)])

ArraySort(fn, q) ==
  LET defined == SelectSeq(q, LAMBDA v: v.t # "undefined")
      undef == SelectSeq(q, LAMBDA v: v.t = "undefined")
  IN SortDefined(fn, defined) \o undef

(***************************************************************************)
(* utils/file.ts: what each save helper writes.  A file's content is kept  *)
(* structured: the format and the value or the cells that the text spells. *)
(***************************************************************************)
\* the value JSON.stringify spells: undefined and NaN inside an array are
\* written as null
RECURSIVE JsonValue(_)
JsonValue(v) ==
  CASE v.t = "undefined" -> Null
    [] v.t = "number" -> IF v.s = "NaN" THEN Null ELSE v
    [] v.t = "array" -> Arr([j \in 1..Len(v.a) |-> JsonValue(v.a[j])])
    [] OTHER -> v

\* fs.writeFile(filepath, JSON.stringify(data, null, 2)): JSON.stringify of
\* undefined is undefined, which writeFile refuses
JsonFile(data) ==
  IF data.t = "undefined"
  THEN Throw(Err("TypeError", "The \"data\" argument must be of type string"))
  ELSE Written([v |-> JsonValue(data), fmt |-> "json", text |-> "", rows |-> <<>>])

saveToJSON(data) == JsonFile(data)

saveToTXT(data) ==
  IF data.t = "string"
  THEN Written([v |-> Undefined, fmt |-> "text", text |-> data.s, rows |-> <<>>])
  ELSE JsonFile(data)

\* String(item[header] ?? ''), quoted when it holds a comma; f is
\* item[header] for a header of Object.keys(data[0])
CsvCell(item, header) ==
  LET keys == ForInKeys(item)
      at == {j \in 1..Len(keys) : keys[j] = header}
      f == IF at = {} THEN Undefined ELSE ForInGet(item, CHOOSE j \in at : TRUE)
      text == IF f.t \in {"undefined", "null"} THEN "" ELSE ToStr(f)
  IN IF f.t = "array" /\ Len(f.a) > 1 THEN "\"" \o text \o "\"" ELSE text

saveToCSV(data) ==
  IF ~IsArray(data) \/ Len(data.a) = 0
  THEN Throw(Err("Error", "CSV export requires non-empty array of objects"))
  ELSE IF data.a[1].t \in {"undefined", "null"}
  THEN Throw(Err("TypeError", "Cannot convert undefined or null to object"))
  ELSE LET headers == ForInKeys(data.a[1])
       IN IF headers # <<>> /\ \E j \in 1..Len(data.a) : data.a[j].t \in {"undefined", "null"}
          THEN Throw(Err("TypeError", "Cannot read properties of undefined"))
          ELSE Written([v |-> Undefined, fmt |-> "csv", text |-> "",
                       rows |-> <<headers>> \o
                                [j \in 1..Len(data.a) |->
                                  [h \in 1..Len(headers) |-> CsvCell(data.a[j], headers[h])]]])

\* no file of that name
NoFile == [v |-> Undefined, fmt |-> "", text |-> "", rows |-> <<>>]

(***************************************************************************)
(* Filenames, already split at the dots: filename.split('.').              *)
(***************************************************************************)
Filenames == {<<"raw", "json">>, <<"out", "csv">>, <<"notes">>}

\* the helper saveAs picks for a filename, by filename.split('.').pop()
Sink(filename) ==
  LET fileTyp == filename[Len(filename)]
  IN  CASE fileTyp = "csv" -> "saveToCSV"
        [] fileTyp = "json" -> "saveToJSON"
        [] OTHER -> "saveToTXT"

Save(filename, data) ==
  CASE Sink(filename) = "saveToCSV" -> saveToCSV(data)
    [] Sink(filename) = "saveToJSON" -> saveToJSON(data)
    [] OTHER -> saveToTXT(data)

(***************************************************************************)
(* What the initializer may return.                                        *)
(***************************************************************************)
\* the array of the executor's end-to-end example
ExampleData == {Arr(<<Num(1), Num(2), Num(3), Num(4), Num(5)>>)}
InitData ==
  LET Items == {Num(0), Num(1), Arr(<<>>)}
      Arrays == UNION {[1..len -> Items] : len \in 0..MaxLen}
      NonArrays == {Undefined, Null, Num(1), Str("a")}
  IN  {Arr(q) : q \in Arrays} \cup NonArrays \cup ExampleData
(***************************************************************************)
(* State.                                                                  *)
(*   steps    Job.steps: the registered step closures, as descriptors      *)
(*   pc       where the program is: "build" (constructed, run() not yet    *)
(*            called), "init" (run awaits the initializer), "loop" (run is *)
(*            at the head of its for loop), "pipe", "save" (a step awaits  *)
(*            its function or its save helper), "sliced", "each",          *)
(*            "filtered" (a step is at the head of its own loop),          *)
(*            "slicedAwait", "eachAwait", "filteredAwait" (it awaits fn),  *)
(*            "done", "failed" (run's promise is settled)                  *)
(*   data     run's local `data`                                           *)
(*   stepNo   position of run's for loop in steps, from 1                  *)
(*   i        the loop variable of the running pipeSliced closure (an      *)
(*            offset) or pipeEach closure (the count of keys visited)      *)
(*   results  the running closure's `results`                              *)
(*   pending  the calls whose promise is not settled, by position in calls *)
(*   files    the output directory: filename -> content                    *)
(*   outcome  the promise run() returned                                   *)
(*   calls    history: every call of the initializer, of a caller-supplied *)
(*            function and of a save helper, in the order they were made   *)
(*   stepLog  history: every call of a step closure by run                 *)
(***************************************************************************)
VARIABLES steps, pc, data, stepNo, i, results, pending, files, outcome, calls, stepLog

(***************************************************************************)
(* The state of a capture session (jobs/search-n-save), which no Job       *)
(* touches.  Tab tracking:                                                 *)
(*   tabs            state.context.pages(): the open pages, in order       *)
(*   activeTabIndex  state.activeTabIndex                                  *)
(*   hooked          the open pages that carry the focusHelper binding and *)
(*                   the close handler                                     *)
(*   active          the running call of getActiveTab                      *)
(*   last            history: the last tab event or tab command            *)
(***************************************************************************)
VARIABLES tabs, activeTabIndex, hooked, active, last

tabVars == <<tabs, activeTabIndex, hooked, active, last>>

(***************************************************************************)
(* Numbered artifacts and the command loop:                                *)
(*   savedLinkCount, savedImageCount, savedLinks   fields of JobState      *)
(*   dataDir     the files of output/data: name -> content                 *)
(*   imagesDir   the names of the files of output/images                   *)
(*   linksFile   the text of output/links.txt, NoText when there is none   *)
(*   loop        the command loop: where it stands and the save it is in   *)
(*   history     the startup and every command since, each with what it    *)
(*               reported and the state it left                            *)
(***************************************************************************)
VARIABLES savedLinkCount, savedImageCount, savedLinks, dataDir, imagesDir, linksFile,
          loop, history

stateVars == <<savedLinkCount, savedImageCount, savedLinks>>

diskVars == <<dataDir, imagesDir, linksFile>>

loopVars == <<stateVars, diskVars, loop, history>>

(***************************************************************************)
(* The modes and the rate limiter:                                         *)
(*   limiter     a RateLimiter, the clock it reads and its callers         *)
(*   copy        copy mode: the ancestors captured and the text picked     *)
(*   imgMetaDir  the files of output/img-meta: name -> content             *)
(*   img         image mode: its flags and the image saves under way       *)
(*   clipboard   the system clipboard the modes write and read             *)
(***************************************************************************)
VARIABLES limiter, copy, imgMetaDir, img, clipboard

modeVars == <<limiter, copy, imgMetaDir, img, clipboard>>

captureVars == <<tabVars, loopVars, modeVars>>

jobVars == <<steps, pc, data, stepNo, i, results, pending, files, outcome, calls, stepLog>>

vars == <<jobVars, captureVars>>


\* the pages a browser context can hold; a closed page's name is free again
\* and a new page takes the least free name
Pages == 1..MaxTabs
\* null: what getActiveTab returns when no page is open
NoPage == 0
\* undefined: pages[k] for a k that is no index of pages
UndefinedPage == -1

\* no call of getActiveTab is running
NoCall == [pc |-> "idle", pages |-> <<>>, front |-> NoPage]

\* a tab event or tab command op.  page: the page clicked; from: the
\* activeTabIndex a close handler or a command met; handled: the session's
\* code ran; threw: it ended in an exception; front: the page it brought to
\* the front; result: what getActiveTab returned
Event(op, page, from, handled) ==
  [front |-> NoPage, op |-> op, page |-> page, from |-> from, handled |-> handled,
   threw |-> FALSE, result |-> NoPage]

\* a process that runs no capture session
NoTabs ==
  /\ tabs = <<>>
  /\ activeTabIndex = 0
  /\ hooked = {}
  /\ active = NoCall
  /\ last = Event("none", NoPage, 0, FALSE)

\* no file
NoText == <<"ENOENT">>

\* a directory without files
NoFiles == [f \in {} |-> <<>>]

\* the command loop is not running
NoLoop ==
  [pc |-> "off", url |-> <<>>, clip |-> <<>>, own |-> <<>>, answer |-> <<>>,
   said |-> "", closed |-> 0]

\* a process that has not called initializeState
NoSession ==
  /\ savedLinkCount = 0
  /\ savedImageCount = 0
  /\ savedLinks = {}
  /\ dataDir = NoFiles
  /\ imagesDir = {}
  /\ linksFile = NoText
  /\ loop = NoLoop
  /\ history = <<>>

\* currentAncestors = []; currentCopiedText = ''; shouldSave = false
NoCopy == [text |-> <<>>, ancestors |-> <<>>, shouldSave |-> FALSE]

\* no image is being saved.  cmd is the save of the save sub-command and
\* click the save of the saveImage binding: where it stands (pc), its
\* currentImageCount, the file name it made of the counter (own), the one
\* getManualFilePath gave it (path) and the page URL; unlinks holds the
\* files whose removal has been started and not awaited; started counts
\* the saves begun
NoImage ==
  LET none == [pc |-> "none", url |-> <<>>, own |-> <<>>, count |-> 0, path |-> <<>>]
  IN  [cmd |-> none, click |-> none, isImageSaving |-> FALSE, unlinks |-> {}, started |-> 0]

\* a process that uses neither a mode nor a limiter
NoModes ==
  /\ limiter = <<>>
  /\ copy = NoCopy
  /\ imgMetaDir = NoFiles
  /\ img = NoImage
  /\ clipboard = <<>>

StepDesc(kind, fn, sliceSize, filename) ==
  [sliceSize |-> sliceSize, fn |-> fn, filename |-> filename, kind |-> kind]

Call(step, what, fn, filename, arg, index) ==
  [fn |-> fn, index |-> index, filename |-> filename, result |-> Return(Undefined), step |-> step,
   what |-> what, arg |-> arg, settled |-> FALSE]

NoOutcome == [v |-> Undefined, e |-> NoError, status |-> "none"]

\* new Job(init, globalState)
NewJob ==
  /\ steps = <<>>
  /\ pc = "build"
  /\ data = Undefined
  /\ stepNo = 0
  /\ i = 0
  /\ results = <<>>
  /\ pending = {}
  /\ files = [f \in Filenames |-> NoFile]
  /\ outcome = NoOutcome
  /\ calls = <<>>
  /\ stepLog = <<>>

\* a process that builds and runs a Job and holds no capture session
Init == NewJob /\ NoTabs /\ NoSession /\ NoModes

(***************************************************************************)
(* Registration: each method pushes one closure and returns the Job.       *)
(***************************************************************************)
\* the chain of jobs/newspaper1: a checkpoint, a transformation, a checkpoint
ExampleChain ==
  <<StepDesc("saveAs", "", 0, <<"raw", "json">>), StepDesc("pipe", "first", 0, <<>>),
    StepDesc("saveAs", "", 0, <<"notes">>)>>

\* the chains the model registers: all of at most MaxSteps steps, and
\* ExampleChain; a window size below 1 is followed for the identity step at
\* the head of a chain
Registrable(chain) ==
  /\ \/ Len(chain) <= MaxSteps
     \/ Len(chain) <= Len(ExampleChain) /\ chain = SubSeq(ExampleChain, 1, Len(chain))
  /\ \A k \in 1..Len(chain) :
       (chain[k].kind = "pipeSliced" /\ chain[k].sliceSize < 1) =>
         k = 1 /\ chain[k].fn = "id"

Register(d) ==
  /\ pc = "build"
  /\ Registrable(Append(steps, d))
  /\ steps' = Append(steps, d)
  /\ UNCHANGED <<captureVars, pc, data, stepNo, i, results, pending, files, outcome, calls,
                 stepLog>>

(***************************************************************************)
(* run(): bookkeeping shared by the actions below.                         *)
(***************************************************************************)
\* the step run's loop is at
cur == steps[stepNo]

\* a call is made: its promise is pending
StartCall(c) ==
  /\ calls' = Append(calls, c)
  /\ pending' = pending \cup {Len(calls) + 1}

\* the promise of the latest call settles with r, and the awaiting code resumes
SettleCall(r) ==
  /\ Len(calls) \in pending
  /\ calls' = [calls EXCEPT ![Len(calls)] = [@ EXCEPT !.settled = TRUE, !.result = r]]
  /\ pending' = pending \ {Len(calls)}

\* run calls step(data, state)
Started ==
  Append(stepLog, [result |-> Return(Undefined), kind |-> cur.kind, step |-> stepNo,
                   settled |-> FALSE, input |-> data])

Settled(log, r) ==
  [log EXCEPT ![Len(log)] = [@ EXCEPT !.settled = TRUE, !.result = r]]

\* a catch that rethrows a new error
RejectionWrapped(e) == Err("Error", "Step failed: " \o e.message)

\* run has no try/catch: its promise rejects with the error the step threw
Rejection(e) == e

\* a loop that passes over a step
StepAfterSkipping(n) == n + 2

\* the for-of loop moves to the next registered step
StepAfter(n) == n + 1

\* `data = await step(data, state)` resumes with v
StepReturns(log, v) ==
  /\ stepLog' = Settled(log, Return(v))
  /\ data' = v
  /\ stepNo' = StepAfter(stepNo)
  /\ pc' = "loop"
  /\ UNCHANGED outcome

\* the awaited step throws e: run's loop is abandoned
StepThrows(log, e) ==
  /\ stepLog' = Settled(log, Throw(e))
  /\ pc' = "failed"
  /\ outcome' = [v |-> Undefined, e |-> Rejection(e), status |-> "rejected"]
  /\ UNCHANGED <<data, stepNo>>

AtStep(kind) == pc = "loop" /\ stepNo <= Len(steps) /\ cur.kind = kind

(***************************************************************************)
(* run()                                                                   *)
(***************************************************************************)
\* run() is called: this.init is set by the constructor, so the guard of
\* lines 104-106 passes; the initializer is called
Run ==
  /\ pc = "build"
  /\ pc' = "init"
  /\ outcome' = [NoOutcome EXCEPT !.status = "pending"]
  /\ StartCall(Call(0, "init", "init", <<>>, Undefined, Undefined))
  /\ UNCHANGED <<captureVars, steps, data, stepNo, i, results, files, stepLog>>

\* `let data = await this.init(state)` resumes with d.  The runs explored
\* are those within MaxWork, and the example array through every chain of
\* at most one step.
InitReturns(d) ==
  /\ pc = "init"
  /\ \/ d \notin ExampleData /\ Len(steps) * (Len(d.a) + 1) <= MaxWork
     \/ d \in ExampleData /\ Len(steps) <= 1
  /\ SettleCall(Return(d))
  /\ data' = d
  /\ stepNo' = 1
  /\ pc' = "loop"
  /\ UNCHANGED <<captureVars, steps, i, results, files, outcome, stepLog>>

\* the loop is over: `return data`
RunReturns ==
  /\ pc = "loop"
  /\ stepNo > Len(steps)
  /\ pc' = "done"
  /\ outcome' = [v |-> data, e |-> NoError, status |-> "fulfilled"]
  /\ UNCHANGED <<captureVars, steps, data, stepNo, i, results, pending, files, calls, stepLog>>

(***************************************************************************)
(* A pipe step: the closure is the caller's function.                      *)
(***************************************************************************)
PipeCall ==
  /\ AtStep("pipe")
  /\ stepLog' = Started
  /\ StartCall(Call(stepNo, "fn", cur.fn, <<>>, data, Undefined))
  /\ pc' = "pipe"
  /\ UNCHANGED <<captureVars, steps, data, stepNo, i, results, files, outcome>>

PipeSettles ==
  /\ pc = "pipe"
  /\ LET r == ApplyStep(cur.fn, data)
     IN /\ SettleCall(r)
        /\ IF r.ok THEN StepReturns(stepLog, r.v) ELSE StepThrows(stepLog, r.e)
  /\ UNCHANGED <<captureVars, steps, i, results, files>>

(***************************************************************************)
(* A sort step: data.sort(fn), synchronous.                                *)
(***************************************************************************)
SortResult(fn, d) ==
  IF IsArray(d) THEN Return(Arr(ArraySort(fn, d.a)))
  ELSE IF d.t \in {"undefined", "null"}
  THEN Throw(Err("TypeError", "Cannot read properties of " \o d.t))
  ELSE Throw(Err("TypeError", "data.sort is not a function"))

SortStep ==
  /\ AtStep("sort")
  /\ LET r == SortResult(cur.fn, data)
     IN IF r.ok THEN StepReturns(Started, r.v) ELSE StepThrows(Started, r.e)
  /\ UNCHANGED <<captureVars, steps, i, results, pending, files, calls>>

(***************************************************************************)
(* A pipeSliced step.                                                      *)
(***************************************************************************)
\* fn called without `await`: the loop goes on
SlicedNoAwait == "sliced"

\* where the closure is after calling fn on a window: suspended at `await`
SlicedAfterCall == "slicedAwait"

\* `results.push(result)` without the spread: one element per window
SlicedPushWhole(result) == IF Truthy(result) /\ IsArray(result) THEN <<result>> ELSE <<>>

\* what a window's result adds to results
SlicedPush(result) == IF Truthy(result) /\ IsArray(result) THEN result.a ELSE <<>>

\* the test without Array.isArray
NotTruthy(d) == ~Truthy(d)

\* `!data || !Array.isArray(data)`
NotAnArray(d) == ~Truthy(d) \/ ~IsArray(d)

\* a loop that moves on by one element
NextWindowByOne(at, sliceSize) == at + 1

\* `i += sliceSize`
NextWindow(at, sliceSize) == at + sliceSize

\* the closure is called: the type check, then `results = []` and `i = 0`
SlicedEnter ==
  /\ AtStep("pipeSliced")
  /\ IF NotAnArray(data)
     THEN /\ StepThrows(Started, Err("Error", "Data is not an array"))
          /\ UNCHANGED <<i, results>>
     ELSE /\ stepLog' = Started
          /\ results' = <<>>
          /\ i' = 0
          /\ pc' = "sliced"
          /\ UNCHANGED <<data, stepNo, outcome>>
  /\ UNCHANGED <<captureVars, steps, pending, files, calls>>

\* `i < data.length`: fn is called on the window at i.  A loop that does
\* not move on is followed for MaxWork calls
SlicedCall ==
  /\ pc = "sliced"
  /\ i < Len(data.a)
  /\ cur.sliceSize >= 1 \/ Len(calls) < MaxWork
  /\ StartCall(Call(stepNo, "fn", cur.fn, <<>>, Arr(Slice(data.a, i, cur.sliceSize)), Num(i)))
  /\ pc' = SlicedAfterCall
  /\ UNCHANGED <<captureVars, steps, data, stepNo, i, results, files, outcome, stepLog>>

\* `await fn(...)` resumes: the result is pushed and `i += sliceSize`
SlicedSettles ==
  /\ pc = "slicedAwait"
  /\ LET c == calls[Len(calls)]
         r == ApplySliced(c.fn, c.arg.a, c.index.n)
     IN /\ SettleCall(r)
        /\ IF r.ok
           THEN /\ results' = results \o SlicedPush(r.v)
                /\ i' = NextWindow(i, cur.sliceSize)
                /\ pc' = "sliced"
                /\ UNCHANGED <<data, stepNo, outcome, stepLog>>
           ELSE /\ StepThrows(stepLog, r.e)
                /\ UNCHANGED <<i, results>>
  /\ UNCHANGED <<captureVars, steps, files>>

\* the loop is over: `return results`
SlicedReturns ==
  /\ pc = "sliced"
  /\ ~(i < Len(data.a))
  /\ StepReturns(stepLog, Arr(results))
  /\ UNCHANGED <<captureVars, steps, i, results, pending, files, calls>>

(***************************************************************************)
(* pipeEach and pipeEachFiltered steps: `for (const i in data)`.  Here i   *)
(* counts the keys already visited.                                        *)
(***************************************************************************)
\* the closure is called: `results = []`
LoopEnter(kind, at) ==
  /\ AtStep(kind)
  /\ stepLog' = Started
  /\ results' = <<>>
  /\ i' = 0
  /\ pc' = at
  /\ UNCHANGED <<captureVars, steps, data, stepNo, pending, files, outcome, calls>>

\* the next key: fn(data[i], state, i)
LoopCall(at, awaiting) ==
  /\ pc = at
  /\ i < Len(ForInKeys(data))
  /\ StartCall(Call(stepNo, "fn", cur.fn, <<>>, ForInGet(data, i + 1),
                    Str(ForInKeys(data)[i + 1])))
  /\ pc' = awaiting
  /\ UNCHANGED <<captureVars, steps, data, stepNo, i, results, files, outcome, stepLog>>

\* no key is left: `return results`
LoopReturns(at) ==
  /\ pc = at
  /\ ~(i < Len(ForInKeys(data)))
  /\ StepReturns(stepLog, Arr(results))
  /\ UNCHANGED <<captureVars, steps, i, results, pending, files, calls>>

\* a push that leaves out falsy results
EachPushTruthy(result) == IF Truthy(result) THEN <<result>> ELSE <<>>

\* pipeEach: `results.push(await fn(...))`
EachPush(result) == <<result>>

\* the test the wrong way round: `if (!result)`
FilteredPushFalsy(result) == IF Truthy(result) THEN <<>> ELSE <<result>>

\* pipeEachFiltered: `if (result) results.push(result)`
FilteredPush(result) == IF Truthy(result) THEN <<result>> ELSE <<>>

\* `await fn(...)` resumes with a result, which the closure pushes or drops
LoopSettles(at, awaiting, filtered) ==
  /\ pc = awaiting
  /\ LET c == calls[Len(calls)]
         r == ApplyEach(c.fn, c.arg, c.index.s)
     IN /\ SettleCall(r)
        /\ IF r.ok
           THEN /\ results' = results \o (IF filtered THEN FilteredPush(r.v)
                                                    ELSE EachPush(r.v))
                /\ i' = i + 1
                /\ pc' = at
                /\ UNCHANGED <<data, stepNo, outcome, stepLog>>
           ELSE /\ StepThrows(stepLog, r.e)
                /\ UNCHANGED <<i, results>>
  /\ UNCHANGED <<captureVars, steps, files>>

(***************************************************************************)
(* A saveAs step.                                                          *)
(***************************************************************************)
\* a closure without `return data`
SaveAsNoResult(d) == Undefined

\* what the closure returns after the save helper resolved
SaveAsResult(d) == d

\* the closure is called: the helper for the file type is called with data
SaveCall ==
  /\ AtStep("saveAs")
  /\ stepLog' = Started
  /\ StartCall(Call(stepNo, "save", Sink(cur.filename), cur.filename, data, Undefined))
  /\ pc' = "save"
  /\ UNCHANGED <<captureVars, steps, data, stepNo, i, results, files, outcome>>

\* the helper's promise settles: the file is written, or the helper threw
SaveSettles ==
  /\ pc = "save"
  /\ LET c == calls[Len(calls)]
         r == Save(c.filename, c.arg)
     IN IF r.ok
        THEN /\ SettleCall(Return(Undefined))
             /\ files' = [files EXCEPT ![c.filename] = r.content]
             /\ StepReturns(stepLog, SaveAsResult(data))
        ELSE /\ SettleCall(Throw(r.e))
             /\ UNCHANGED files
             /\ StepThrows(stepLog, r.e)
  /\ UNCHANGED <<captureVars, steps, i, results>>

(***************************************************************************)
(* The specification.                                                      *)
(***************************************************************************)
Next ==
  \/ Register(StepDesc("pipe", "first", 0, <<>>))
  \/ Register(StepDesc("sort", "asc", 0, <<>>))
  \/ \E fn \in {"id", "double", "none", "skip"}, sliceSize \in (-1)..MaxSlice :
       Register(StepDesc("pipeSliced", fn, sliceSize, <<>>))
  \/ \E fn \in EachFns : Register(StepDesc("pipeEach", fn, 0, <<>>))
  \/ \E fn \in EachFns : Register(StepDesc("pipeEachFiltered", fn, 0, <<>>))
  \/ \E filename \in Filenames : Register(StepDesc("saveAs", "", 0, filename))
  \/ Run
  \/ \E d \in InitData : InitReturns(d)
  \/ RunReturns
  \/ PipeCall
  \/ PipeSettles
  \/ SortStep
  \/ SlicedEnter
  \/ SlicedCall
  \/ SlicedSettles
  \/ SlicedReturns
  \/ LoopEnter("pipeEach", "each")
  \/ LoopCall("each", "eachAwait")
  \/ LoopSettles("each", "eachAwait", FALSE)
  \/ LoopReturns("each")
  \/ LoopEnter("pipeEachFiltered", "filtered")
  \/ LoopCall("filtered", "filteredAwait")
  \/ LoopSettles("filtered", "filteredAwait", TRUE)
  \/ LoopReturns("filtered")
  \/ SaveCall
  \/ SaveSettles

Spec == Init /\ [][Next]_vars

(***************************************************************************)
(* Tab tracking of the capture session (search-n-save/state.ts and         *)
(* tab-ctrl.ts).  Pages open and close and are clicked in the browser at   *)
(* any time; the session hears of a click or a close only through the      *)
(* binding and the handler it has attached to that page.                   *)
(***************************************************************************)

Opened(pages) == {pages[k] : k \in 1..Len(pages)}

\* pages[k]
PageAt(pages, k) == IF k \in 0..(Len(pages) - 1) THEN pages[k + 1] ELSE UndefinedPage

\* await pages[k].bringToFront() as the last statement of what ran as event
\* ev: reading bringToFront of undefined throws a TypeError
BringToFront(ev, pages, k) ==
  IF PageAt(pages, k) = UndefinedPage
  THEN [ev EXCEPT !.threw = TRUE]
  ELSE [ev EXCEPT !.front = PageAt(pages, k)]

\* initializeState has hooked every page that was open; no tab is chosen
TabInit ==
  /\ NewJob
  /\ tabs \in {[k \in 1..len |-> k] : len \in 0..MaxTabs}
  /\ activeTabIndex = 0
  /\ hooked = Opened(tabs)
  /\ active = NoCall
  /\ last = Event("none", NoPage, 0, FALSE)
  /\ NoSession
  /\ NoModes

\* the browser opens a page; the 'page' subscription starts to attach the
\* binding and the handler, which takes two awaits (a page opened while
\* initializeState still attaches to the first pages is never hooked)
OpenTab(page) ==
  /\ page \in Pages \ Opened(tabs)
  /\ \A free \in Pages \ Opened(tabs) : page <= free
  /\ tabs' = Append(tabs, page)
  /\ last' = Event("open", NoPage, 0, FALSE)
  /\ UNCHANGED <<jobVars, modeVars, loopVars, activeTabIndex, hooked, active>>

\* attachFocusHelperPage has returned for an open page and attachCloseHandler
\* has run
AttachReturns(page) ==
  /\ page \in Opened(tabs) \ hooked
  /\ hooked' = hooked \cup {page}
  /\ UNCHANGED <<jobVars, modeVars, loopVars, tabs, activeTabIndex, active, last>>

\* the loop without its break
FocusHelperNoBreak(pages, page) == Len(pages) - 1

\* the focusHelper binding of page: the loop counts the tabs before page
\* and Math.min keeps the count below tabs.length
FocusHelperIndex(pages, page) ==
  LET at == {k \in 1..Len(pages) : pages[k] = page}
      index == IF at = {} THEN Len(pages) ELSE (CHOOSE k \in at : TRUE) - 1
  IN IF index < Len(pages) - 1 THEN index ELSE Len(pages) - 1

\* a click inside a page that carries the binding
Click(page) ==
  /\ page \in hooked
  /\ activeTabIndex' = FocusHelperIndex(tabs, page)
  /\ last' = Event("click", page, 0, TRUE)
  /\ UNCHANGED <<jobVars, modeVars, loopVars, tabs, hooked, active>>

\* the handler without its adjustment
ClosedNoClamp(index, count) == index

\* the close handler's index for count > 0 remaining tabs
ClosedIndex(index, count) == IF index >= count THEN count - 1 ELSE index

\* a page closes: it leaves context.pages() and its 'close' listeners run
CloseTab(page) ==
  /\ page \in Opened(tabs)
  /\ LET pages == SelectSeq(tabs, LAMBDA q : q # page)
         index == ClosedIndex(activeTabIndex, Len(pages))
     IN /\ tabs' = pages
        /\ hooked' = hooked \ {page}
        /\ IF page \notin hooked
           THEN /\ last' = Event("close", NoPage, 0, FALSE)
                /\ UNCHANGED activeTabIndex
           ELSE IF Len(pages) = 0
           THEN /\ activeTabIndex' = 0
                /\ last' = Event("close", NoPage, activeTabIndex, TRUE)
           ELSE /\ activeTabIndex' = index
                /\ last' = BringToFront(Event("close", NoPage, activeTabIndex, TRUE),
                                        pages, index)
  /\ UNCHANGED <<jobVars, modeVars, loopVars, active>>

\* no command of the session is running: the command loop awaits each
\* command before it reads the next
Prompting == active = NoCall

\* the increment without the wraparound
NextNoWrap(index, count) == index + 1

\* focusNextTab's index
NextIndex(index, count) == IF index + 1 >= count THEN 0 ELSE index + 1

FocusNextTab ==
  /\ Prompting
  /\ IF Len(tabs) = 0
     THEN /\ last' = Event("next", NoPage, activeTabIndex, TRUE)
          /\ UNCHANGED activeTabIndex
     ELSE LET index == NextIndex(activeTabIndex, Len(tabs))
          IN /\ activeTabIndex' = index
             /\ last' = BringToFront(Event("next", NoPage, activeTabIndex, TRUE),
                                     tabs, index)
  /\ UNCHANGED <<jobVars, modeVars, loopVars, tabs, hooked, active>>

\* focusPrevTab's index
PrevIndex(index, count) == IF index - 1 <= 0 THEN count - 1 ELSE index - 1

FocusPrevTab ==
  /\ Prompting
  /\ IF Len(tabs) = 0
     THEN /\ last' = Event("prev", NoPage, activeTabIndex, TRUE)
          /\ UNCHANGED activeTabIndex
     ELSE LET index == PrevIndex(activeTabIndex, Len(tabs))
          IN /\ activeTabIndex' = index
             /\ last' = BringToFront(Event("prev", NoPage, activeTabIndex, TRUE),
                                     tabs, index)
  /\ UNCHANGED <<jobVars, modeVars, loopVars, tabs, hooked, active>>

\* getActiveTab up to its first await.  The history keeps the page of a
\* click that no tab event has followed.
GetActiveTabCall ==
  /\ Prompting
  /\ LET pages == tabs
         after == IF last.op = "click" THEN last.page ELSE NoPage
     IN IF Len(pages) = 0
        THEN /\ active' = NoCall
             /\ last' = Event("got", after, 0, TRUE)
        ELSE IF activeTabIndex < Len(pages)
        THEN /\ active' = [pc |-> "front", pages |-> pages,
                           front |-> PageAt(pages, activeTabIndex)]
             /\ last' = Event("get", after, 0, TRUE)
        ELSE /\ active' = [pc |-> "scan", pages |-> pages, front |-> NoPage]
             /\ last' = Event("get", after, 0, TRUE)
  /\ UNCHANGED <<jobVars, modeVars, loopVars, tabs, activeTabIndex, hooked>>

\* getActiveTab after its awaits: bringToFront has resolved and the function
\* reads activeTabIndex again; or the scan has ended, at the first page
\* that answered document.hasFocus() with true or else at the last page
GetActiveTabReturns ==
  /\ active.pc \in {"front", "scan"}
  /\ LET pages == active.pages
         after == IF last.op = "get" THEN last.page ELSE NoPage
         got == [Event("got", after, 0, TRUE) EXCEPT !.front = active.front]
     IN \/ /\ active.pc = "front"
           /\ last' = [got EXCEPT !.result = PageAt(pages, activeTabIndex)]
           /\ UNCHANGED activeTabIndex
        \/ /\ active.pc = "scan"
           /\ \E index \in 0..(Len(pages) - 1) :
                /\ activeTabIndex' = index
                /\ last' = [got EXCEPT !.result = PageAt(pages, index)]
  /\ active' = NoCall
  /\ UNCHANGED <<jobVars, modeVars, loopVars, tabs, hooked>>

TabNext ==
  \/ \E page \in Pages : OpenTab(page)
  \/ \E page \in Pages : AttachReturns(page)
  \/ \E page \in Pages : Click(page)
  \/ \E page \in Pages : CloseTab(page)
  \/ FocusNextTab
  \/ FocusPrevTab
  \/ GetActiveTabCall
  \/ GetActiveTabReturns

TabSpec == TabInit /\ [][TabNext]_vars

(***************************************************************************)
(* Numbered artifacts: the startup scan, save and undo.                    *)
(*                                                                         *)
(* A text is a sequence of tokens: a URL or a clipboard body is one token, *)
(* the line feed, the space and the punctuation the program writes or      *)
(* looks for are tokens of their own.  A file name is its three parts:     *)
(* what stands before the digits, the digits, and what follows them.       *)
(***************************************************************************)
NL == "\n"

DigitChar == <<"0", "1", "2", "3", "4", "5", "6", "7", "8", "9">>

\* String(n) of a non-negative integer
RECURSIVE NumberToString(_)
NumberToString(n) ==
  IF n < 10 THEN <<DigitChar[n + 1]>>
  ELSE Append(NumberToString(n \div 10), DigitChar[(n % 10) + 1])

\* width of a padded number
PadWidth == 5

\* String(n).padStart(PadWidth, '0')
padNumber(n) ==
  LET RECURSIVE PadStart(_)
      PadStart(digits) ==
        IF Len(digits) >= PadWidth THEN digits ELSE PadStart(<<"0">> \o digits)
  IN  PadStart(NumberToString(n))

\* parseInt of a run of decimal digits
RECURSIVE ParseInt(_)
ParseInt(digits) ==
  IF digits = <<>> THEN 0
  ELSE 10 * ParseInt(SubSeq(digits, 1, Len(digits) - 1))
         + (CHOOSE d \in 0..9 : DigitChar[d + 1] = digits[Len(digits)])

FileName(stem, digits, ext) == [digits |-> digits, stem |-> stem, ext |-> ext]

ResultName(digits) == FileName("result-", digits, ".txt")

\* file.match(/^result-(\d+)\.txt$/)
MatchesResult(file) == file.stem = "result-" /\ file.digits # <<>> /\ file.ext = ".txt"

\* file.match(/^(\d+)\./)
MatchesImage(file) == file.stem = "" /\ file.digits # <<>> /\ file.ext # ""

\* fs.readdir: the names of a directory, in some order
RECURSIVE Readdir(_)
Readdir(names) ==
  IF names = {} THEN <<>>
  ELSE LET file == CHOOSE f \in names : TRUE
       IN  <<file>> \o Readdir(names \ {file})

\* the scan that counts the files instead of taking the largest number
LastNumberByCount(listing, numbers) == Len(listing)

\* 0 for an empty directory or one without numbers, else Math.max + 1
LastNumber(listing, numbers) ==
  LET RECURSIVE MathMax(_)
      MathMax(nums) ==
        IF Len(nums) = 1 THEN nums[1]
        ELSE LET rest == MathMax(Tail(nums))
             IN  IF Head(nums) > rest THEN Head(nums) ELSE rest
  IN  IF Len(listing) = 0 THEN 0
      ELSE IF Len(numbers) = 0 THEN 0
      ELSE MathMax(numbers) + 1

getLastResultFileNumber(names) ==
  LET listing == Readdir(names)
      mapped == [k \in 1..Len(listing) |->
                   IF MatchesResult(listing[k]) THEN ParseInt(listing[k].digits) ELSE -1]
      numbers == SelectSeq(mapped, LAMBDA num : num >= 0)
  IN  LastNumber(listing, numbers)

getLastImageNumber(names) ==
  LET listing == Readdir(names)
      mapped == [k \in 1..Len(listing) |->
                   IF MatchesImage(listing[k]) THEN ParseInt(listing[k].digits) ELSE -1]
      numbers == SelectSeq(mapped, LAMBDA num : num >= 0)
  IN  LastNumber(listing, numbers)

\* content.split('\n')
RECURSIVE Split(_)
Split(text) ==
  IF \A k \in 1..Len(text) : text[k] # NL THEN <<text>>
  ELSE LET at == CHOOSE k \in 1..Len(text) :
                   text[k] = NL /\ \A j \in 1..(k - 1) : text[j] # NL
       IN  <<SubSeq(text, 1, at - 1)>> \o Split(SubSeq(text, at + 1, Len(text)))

\* line.trim()
Trim(line) ==
  LET RECURSIVE TrimStart(_)
      TrimStart(l) == IF l # <<>> /\ Head(l) = " " THEN TrimStart(Tail(l)) ELSE l
      RECURSIVE TrimEnd(_)
      TrimEnd(l) ==
        IF l # <<>> /\ l[Len(l)] = " " THEN TrimEnd(SubSeq(l, 1, Len(l) - 1)) ELSE l
  IN  TrimEnd(TrimStart(line))

\* content.split('\n').filter(line => line.trim() !== '')
ContentLines(text) == SelectSeq(Split(text), LAMBDA line : Trim(line) # <<>>)

loadExistingLinks(text) ==
  IF text = NoText THEN {}
  ELSE LET lines == ContentLines(text)
       IN  {Trim(lines[k]) : k \in 1..Len(lines)}

\* spaces of indentation JSON.stringify is asked for
JsonIndent == 2

\* the text saveToTXT writes when it is handed a list of lines: a list is
\* not a string, so it writes JSON.stringify(data, null, 2): every line
\* indented, quoted and escaped, the lines separated by commas
saveLinesToTXT(lines) ==
  LET RECURSIVE JsonEscape(_)
      JsonEscape(line) ==
        IF line = <<>> THEN <<>>
        ELSE (IF Head(line) \in {"\"", "\\"} THEN <<"\\", Head(line)>> ELSE <<Head(line)>>)
               \o JsonEscape(Tail(line))
      RECURSIVE JsonItems(_)
      JsonItems(rest) ==
        LET item == [k \in 1..JsonIndent |-> " "] \o <<"\"">> \o JsonEscape(Head(rest))
                      \o <<"\"">>
        IN  IF Len(rest) = 1 THEN item
            ELSE item \o <<",", NL>> \o JsonItems(Tail(rest))
  IN  IF lines = <<>> THEN <<"[", "]">>
      ELSE <<"[", NL>> \o JsonItems(lines) \o <<NL, "]">>

\* `# ${count}: ${url}\n\n${clipboard}`
ArtifactContent(count, url, clip) ==
  <<"# ">> \o NumberToString(count) \o <<": ">> \o url \o <<NL, NL>> \o clip

\* the group of firstLine.match(/^# \d+: (.+)$/), <<>> when there is no match
UrlMatch(firstLine) ==
  LET digit == {DigitChar[d] : d \in 1..10}
      rest == {k \in 3..Len(firstLine) : firstLine[k] \notin digit}
      at == CHOOSE k \in rest : \A j \in rest : k <= j
  IN  IF Len(firstLine) >= 2 /\ firstLine[1] = "# " /\ firstLine[2] \in digit
         /\ rest # {} /\ firstLine[at] = ": "
      THEN SubSeq(firstLine, at + 1, Len(firstLine))
      ELSE <<>>

\* page.url() of the active tab, and what the clipboard holds
Urls == {<<"u1">>, <<"u2">>}

\* the clipboard: empty, blank, or a text
Clips == {<<>>, <<" ">>, <<"hello">>}

\* what the operator types at the prompt for a number: -1 stands for every
\* answer that is negative or not a number
Answers == (-1)..3

Put(dir, name, content) ==
  [f \in DOMAIN dir \cup {name} |-> IF f = name THEN content ELSE dir[f]]

Remove(dir, name) == [f \in DOMAIN dir \ {name} |-> dir[f]]

\* the output directories a process is started on:
\*   one nothing was ever written to;
\*   one holding only files the program does not number;
\*   one the operator has worked in by hand: two numbered results, the
\*   second without the header line, and files of other names;
\*   one from which the operator has taken result 1 and its line away.
\* Of the images only the last saved has kept its metadata file.
Disks ==
  {[data |-> NoFiles, images |-> {}, links |-> NoText, meta |-> NoFiles],
   [data |-> Put(NoFiles, FileName("notes", <<>>, ".txt"), <<"todo">>),
    images |-> {FileName("cover", <<>>, ".jpg")},
    links |-> NoText, meta |-> NoFiles],
   [data |-> Put(Put(Put(Put(NoFiles,
               ResultName(padNumber(0)), ArtifactContent(0, <<"u1">>, <<"hello">>)),
               ResultName(padNumber(1)), <<"old">>),
               FileName("notes", <<>>, ".txt"), <<"todo">>),
               FileName("result-", padNumber(9), ".bak"), <<"old">>),
    images |-> {FileName("", padNumber(0), ".jpg"), FileName("", padNumber(3), ".png"),
                FileName("cover", <<>>, ".jpg"), FileName("", padNumber(7), "")},
    links |-> <<"u1", NL, "u2", NL>>,
    meta |-> Put(NoFiles, FileName("", padNumber(3), ".txt"),
                 [number |-> 3, url |-> <<"u1">>, image |-> FileName("", padNumber(3), ".png"),
                  caption |-> <<"hello">>])],
   [data |-> Put(Put(NoFiles,
               ResultName(padNumber(0)), ArtifactContent(0, <<"u1">>, <<"hello">>)),
               ResultName(padNumber(2)), ArtifactContent(2, <<"u2">>, <<"hello">>)),
    images |-> {},
    links |-> <<"u1", NL, "u2", NL>>, meta |-> NoFiles]}

\* the process is started on some output directory, with one page open
SessionInit ==
  /\ NewJob
  /\ tabs = <<1>>
  /\ activeTabIndex = 0
  /\ hooked = {1}
  /\ active = NoCall
  /\ last = Event("none", NoPage, 0, FALSE)
  /\ savedLinkCount = 0
  /\ savedImageCount = 0
  /\ savedLinks = {}
  /\ \E disk \in Disks :
       /\ dataDir = disk.data
       /\ imagesDir = disk.images
       /\ linksFile = disk.links
       /\ imgMetaDir = disk.meta
  /\ loop = NoLoop
  /\ history = <<>>
  /\ limiter = <<>>
  /\ copy = NoCopy
  /\ img = NoImage
  /\ clipboard = <<>>

\* a line of the history: a startup or a command that got as far as
\* changing something, the write of it that failed, what it reported, the
\* file it wrote or went for, and the state it left
Report(op, url, clip, fail, msg, digits, count, links, text, dir) ==
  [text |-> text, op |-> op, url |-> url, clip |-> clip, count |-> count, digits |-> digits,
   dir |-> dir, links |-> links, fail |-> fail, msg |-> msg]

\* a handler whose end is the end of the loop
ToldAndGone(msg) == [NoLoop EXCEPT !.said = msg]

\* the handler of a command is through and has told the operator msg
Told(msg) == [NoLoop EXCEPT !.pc = "told", !.said = msg]

\* a report that also drops the links held in memory
SaysAndForgets(msg) ==
  /\ loop' = Told(msg)
  /\ savedLinks' = {}
  /\ UNCHANGED <<savedLinkCount, savedImageCount, diskVars, history>>

\* a command that reports and changes nothing
Says(msg) ==
  /\ loop' = Told(msg)
  /\ UNCHANGED <<stateVars, diskVars, history>>

Startup ==
  /\ loop.pc = "off"
  /\ savedLinks' = loadExistingLinks(linksFile)
  /\ savedLinkCount' = getLastResultFileNumber(DOMAIN dataDir)
  /\ savedImageCount' = getLastImageNumber(imagesDir)
  /\ loop' = [NoLoop EXCEPT !.pc = "idle"]
  /\ history' = Append(history,
       Report("start", <<>>, <<>>, "none", "initialized", <<>>,
              savedLinkCount', savedLinks', linksFile, dataDir))
  /\ UNCHANGED <<jobVars, modeVars, tabVars, diskVars>>

\* getManualFilePath finds the path taken and asks the operator for a number
ManualPrompt(digits) == ResultName(digits) \in DOMAIN dataDir

\* a save that writes where the counter points, whatever path came back
WritePathOwn(own, manual) == own

\* the path save writes at is the one getManualFilePath returned
WritePath(own, manual) == manual

\* a save that takes no URL for a duplicate
IsDuplicateNever(url, links) == FALSE

\* state.savedLinks.has(currentUrl)
IsDuplicate(url, links) == url \in links

\* a save that appends its line before it writes its file
AppendsFirst(fail) == fail # "append"

\* the line is appended once the result file has been written
Appends(fail) == fail = "none"

\* save, from the path and the number getManualFilePath returned: the
\* counter takes the number, the result file is written, the line is
\* appended to links.txt, the set and the counter are updated.  fail says
\* how far the writes get: "none" for all of them, "write" for not the
\* result file, "append" for the result file and not the line
FinishSave(url, clip, own, manual, fail) ==
  LET count == ParseInt(manual)
      name == ResultName(WritePath(own, manual))
      done == fail = "none"
  IN  /\ dataDir' = IF fail = "write" THEN dataDir
                    ELSE Put(dataDir, name, ArtifactContent(count, url, clip))
      /\ linksFile' = IF Appends(fail)
                      THEN (IF linksFile = NoText THEN <<>> ELSE linksFile) \o url \o <<NL>>
                      ELSE linksFile
      /\ savedLinks' = IF done THEN savedLinks \cup {url} ELSE savedLinks
      /\ savedLinkCount' = IF done THEN count + 1 ELSE count
      /\ loop' = Told(IF done THEN "saved" ELSE "error")
      /\ history' = Append(history,
           Report("save", url, clip, fail, IF done THEN "saved" ELSE "error", name.digits,
                  savedLinkCount', savedLinks', linksFile', dataDir'))
      /\ UNCHANGED <<savedImageCount, imagesDir>>

SaveCmd(url, clip) ==
  /\ loop.pc = "idle"
  /\ Len(history) <= MaxCmds
  /\ IF IsDuplicate(url, savedLinks) THEN Says("duplicate")
     ELSE IF Trim(clip) = <<>> THEN Says("empty")
     ELSE IF ManualPrompt(padNumber(savedLinkCount))
     THEN /\ loop' = [NoLoop EXCEPT !.pc = "collision", !.url = url, !.clip = clip,
                                    !.own = padNumber(savedLinkCount)]
          /\ UNCHANGED <<stateVars, diskVars, history>>
     ELSE \* a write that fails here has changed nothing: see CmdFails
          \E fail \in {"none", "append"} :
            FinishSave(url, clip, padNumber(savedLinkCount), padNumber(savedLinkCount), fail)
  /\ UNCHANGED <<jobVars, modeVars, tabVars>>

\* the operator answers getManualFilePath's prompt
Answer(k) ==
  /\ loop.pc = "collision"
  /\ IF k < 0 \/ ManualPrompt(padNumber(k))
     THEN /\ loop' = [loop EXCEPT !.answer = <<k>>]
          /\ UNCHANGED <<stateVars, diskVars, history>>
     ELSE \E fail \in {"none", "write", "append"} :
            FinishSave(loop.url, loop.clip, loop.own, padNumber(k), fail)
  /\ UNCHANGED <<jobVars, modeVars, tabVars>>

\* an undo that never takes the file for the one it is after
VerifiedNever(content, lastUrl) == FALSE

\* urlMatch && urlMatch[1] === lastUrl
Verified(content, lastUrl) ==
  LET urlMatch == UrlMatch(Split(content)[1])
  IN  urlMatch # <<>> /\ urlMatch = lastUrl

UndoCmd ==
  /\ loop.pc = "idle"
  /\ Len(history) <= MaxCmds
  /\ IF savedLinkCount = 0 THEN Says("nothing to undo")
     ELSE IF linksFile = NoText THEN Says("no links file")
     ELSE IF ContentLines(linksFile) = <<>> THEN Says("no links")
     ELSE \* the writes get through, or not the one of links.txt, or that
          \* one and not the removal of the result file
          \E fail \in {"none", "rewrite", "unlink"} :
       IF fail = "rewrite" THEN Says("error")
       ELSE
       LET linkLines == ContentLines(linksFile)
           lastUrl == linkLines[Len(linkLines)]
           updatedLinks == SubSeq(linkLines, 1, Len(linkLines) - 1)
           name == ResultName(padNumber(savedLinkCount - 1))
           found == name \in DOMAIN dataDir
           match == found /\ Verified(dataDir[name], lastUrl)
           unlinked == match /\ fail = "none"
           msg == IF unlinked THEN "undone"
                  ELSE IF found /\ ~match THEN "url mismatch" ELSE "file not found"
       IN  /\ linksFile' = saveLinesToTXT(updatedLinks)
           /\ savedLinks' = savedLinks \ {lastUrl}
           /\ savedLinkCount' = savedLinkCount - 1
           /\ dataDir' = IF unlinked THEN Remove(dataDir, name) ELSE dataDir
           /\ loop' = Told(msg)
           /\ history' = Append(history,
                Report("undo", lastUrl, <<>>, IF match THEN fail ELSE "none", msg, name.digits, savedLinkCount', savedLinks', linksFile', dataDir'))
           /\ UNCHANGED <<savedImageCount, imagesDir>>
  /\ UNCHANGED <<jobVars, modeVars, tabVars>>

\* the commands that only read
ReadOnly == {"check", "view", "next", "prev"}

\* a command that only reads, or input the loop knows no command for
ReadOnlyCmd(command) ==
  /\ loop.pc = "idle"
  /\ Says(IF command \in ReadOnly THEN "shown" ELSE "unknown command")
  /\ UNCHANGED <<jobVars, modeVars, tabVars>>

\* the handler of save, undo, check, view or img throws before it has
\* changed anything, the prompt of getManualFilePath included; the catch
\* of the command reports
CmdFails ==
  /\ loop.pc \in {"idle", "collision"}
  /\ Says("error")
  /\ UNCHANGED <<jobVars, modeVars, tabVars>>

\* the loop comes round and asks for the next command
Prompt ==
  /\ loop.pc = "told"
  /\ loop' = [NoLoop EXCEPT !.pc = "idle"]
  /\ UNCHANGED <<jobVars, modeVars, tabVars, stateVars, diskVars, history>>

\* a process that ends without closing the browser
TeardownNone(closed) == closed

\* finally: await state.browser.close()
Teardown(closed) == closed + 1

\* the loop ends: the process closes the browser and is gone
Ends(msg) ==
  /\ loop' = [NoLoop EXCEPT !.said = msg, !.closed = Teardown(loop.closed)]
  /\ savedLinkCount' = 0
  /\ savedImageCount' = 0
  /\ savedLinks' = {}
  /\ UNCHANGED <<jobVars, modeVars, tabVars, diskVars, history>>

\* exit
Exit ==
  /\ loop.pc = "idle"
  /\ Len(history) <= MaxCmds
  /\ Ends("exiting")

\* waitForInput throws: the catch around the loop reports a fatal error
Fatal ==
  /\ loop.pc = "idle"
  /\ Len(history) <= MaxCmds
  /\ Ends("fatal error")

(***************************************************************************)
(* The rate limiter of utils/ai.ts.  The clock counts seconds: a window    *)
(* of w seconds is windowMs = 1000 * w, and the 1000 ms that checkLimit    *)
(* adds to the time it waits is one second.  limiter.waiting maps a caller *)
(* that is inside wait() to the time its wait is over; limiter.admitted    *)
(* counts, second by second, the calls of checkLimit that returned.        *)
(***************************************************************************)
MaxLimit == 2
MaxWindow == 2
MaxTime == 4
MaxCallers == 2
MaxSaves == 2

\* new RateLimiter(limit, windowMs)
LimiterInit ==
  /\ NewJob /\ NoTabs /\ NoSession
  /\ copy = NoCopy /\ imgMetaDir = NoFiles /\ img = NoImage /\ clipboard = <<>>
  /\ \E limit \in 1..MaxLimit, window \in 1..MaxWindow, created \in 0..1 :
       limiter = [limit |-> limit, window |-> window, requestCount |-> 0,
                  lastResetTime |-> created, now |-> created,
                  waiting |-> [c \in {} |-> 0], admitted |-> [t \in 0..MaxTime |-> 0]]

\* the end of checkLimit: behind the test of the count, lastResetTime =
\* Date.now() and requestCount = 0; then requestCount++ and the return
Admit(l, reset) ==
  [l EXCEPT !.lastResetTime = IF reset THEN l.now ELSE l.lastResetTime,
            !.requestCount = IF reset THEN 1 ELSE l.requestCount + 1,
            !.admitted[l.now] = l.admitted[l.now] + 1]

\* caller c calls checkLimit, which runs up to its await or to its end
CheckLimit(c) ==
  /\ c \notin DOMAIN limiter.waiting
  /\ LET elapsed == limiter.now - limiter.lastResetTime
         remainingTime == limiter.window - elapsed + 1
     IN  limiter' =
           IF limiter.requestCount >= limiter.limit
           THEN IF remainingTime > 0
                THEN [limiter EXCEPT !.waiting =
                        [x \in DOMAIN limiter.waiting \cup {c} |->
                           IF x = c THEN limiter.now + remainingTime ELSE limiter.waiting[x]]]
                ELSE Admit(limiter, TRUE)
           ELSE Admit(limiter, FALSE)
  /\ UNCHANGED <<jobVars, tabVars, loopVars, copy, imgMetaDir, img, clipboard>>

\* the wait of caller c is over and its checkLimit goes on to its end
WaitReturns(c) ==
  /\ c \in DOMAIN limiter.waiting
  /\ limiter.now >= limiter.waiting[c]
  /\ limiter' = Admit([limiter EXCEPT
                   !.waiting = [x \in DOMAIN limiter.waiting \ {c} |-> limiter.waiting[x]]], TRUE)
  /\ UNCHANGED <<jobVars, tabVars, loopVars, copy, imgMetaDir, img, clipboard>>

\* a second passes
Tick ==
  /\ limiter.now < MaxTime
  /\ limiter' = [limiter EXCEPT !.now = limiter.now + 1]
  /\ UNCHANGED <<jobVars, tabVars, loopVars, copy, imgMetaDir, img, clipboard>>

LimiterNext ==
  \/ \E c \in 1..MaxCallers : CheckLimit(c)
  \/ \E c \in 1..MaxCallers : WaitReturns(c)
  \/ Tick

LimiterSpec == LimiterInit /\ [][LimiterNext]_vars

(***************************************************************************)
(* Copy mode and image mode.  The command loop is inside handleCopyMode    *)
(* when loop.pc = "copy" and inside handleImageMode when loop.pc =         *)
(* "image"; loop.url is then the URL of the page the mode was entered on.  *)
(***************************************************************************)
\* state.isCopyMode and state.isImageMode, which the bindings read: the
\* flag of a mode is set while the session is in that mode
InMode(mode) == loop.pc = mode

\* handleCopyMode or handleImageMode up to its first prompt, url being the
\* URL of the active page.  With activeTabIndex in range getActiveTab
\* brings that page to the front and returns it.
EnterMode(mode, url) ==
  /\ loop.pc = "idle"
  /\ IF PageAt(tabs, activeTabIndex) = UndefinedPage
     THEN /\ loop' = [NoLoop EXCEPT !.pc = "idle", !.said = "no active page"]
          /\ UNCHANGED copy
     ELSE /\ loop' = [NoLoop EXCEPT !.pc = mode, !.url = url, !.said = "entered"]
          /\ copy' = IF mode = "copy" THEN NoCopy ELSE copy
  /\ UNCHANGED <<jobVars, tabVars, stateVars, diskVars, history, limiter, imgMetaDir, img,
                 clipboard>>

\* the captureElement binding; ancestorsData holds the clicked element's
\* ancestors, the k-th of the sequence being the one with index k - 1
CaptureElement(ancestorsData) ==
  /\ InMode("copy")
  /\ copy' = [copy EXCEPT !.ancestors = ancestorsData]
  /\ UNCHANGED <<jobVars, tabVars, loopVars, limiter, imgMetaDir, img, clipboard>>

\* a pick that also puts the text on the clipboard
CopyCmdPickCopies(command, index) ==
  /\ loop.pc = "copy"
  /\ command = "pick"
  /\ index \in 0..(Len(copy.ancestors) - 1)
  /\ copy' = [copy EXCEPT !.text = copy.ancestors[index + 1]]
  /\ clipboard' = copy.ancestors[index + 1]
  /\ loop' = [loop EXCEPT !.said = "picked"]
  /\ UNCHANGED <<jobVars, tabVars, stateVars, diskVars, history, limiter, imgMetaDir, img>>

\* one pass of the loop of handleCopyMode on the sub-command read, index
\* being the number given to pick.  trimText ends in text.slice(startIdx, NaN)
\* when its end argument is no number and throws when it is one (the search
\* for it starts behind the end of the text), so a trim leaves '' or the
\* text as it was.
CopyCmd(command, index) ==
  /\ loop.pc = "copy"
  /\ LET blank == Trim(copy.text) = <<>>
         says(msg) == /\ loop' = [loop EXCEPT !.said = msg]
                      /\ UNCHANGED <<copy, clipboard>>
         returns(msg) == loop' = [NoLoop EXCEPT !.pc = "idle", !.said = msg]
     IN  CASE command = "leave" -> returns("leaving") /\ UNCHANGED <<copy, clipboard>>
           [] command = "save" ->
                IF blank THEN says("no text")
                ELSE /\ clipboard' = copy.text
                     /\ copy' = [copy EXCEPT !.shouldSave = TRUE]
                     /\ returns("copied")
           [] command = "pick" ->
                IF copy.ancestors = <<>> THEN says("no element")
                ELSE IF index \notin 0..(Len(copy.ancestors) - 1) THEN says("not found")
                ELSE /\ copy' = [copy EXCEPT !.text = copy.ancestors[index + 1]]
                     /\ loop' = [loop EXCEPT !.said = "picked"]
                     /\ UNCHANGED clipboard
           [] command = "trim" ->
                IF blank THEN says("no text")
                ELSE \/ says("trim error")
                     \/ /\ copy' = [copy EXCEPT !.text = <<>>]
                        /\ loop' = [loop EXCEPT !.said = "trimmed"]
                        /\ UNCHANGED clipboard
           [] OTHER -> says("shown")
  /\ UNCHANGED <<jobVars, tabVars, stateVars, diskVars, history, limiter, imgMetaDir, img>>

\* the image sub-commands that save nothing: leave ends handleImageMode,
\* list prints (open, which only opens a page, is OpenTab)
ImageCmd(command) ==
  /\ loop.pc = "image"
  /\ img.cmd.pc = "none"
  /\ loop' = IF command = "leave" THEN [NoLoop EXCEPT !.pc = "idle", !.said = "leaving"]
             ELSE loop
  /\ UNCHANGED <<jobVars, tabVars, stateVars, diskVars, history, modeVars>>

\* an undo that takes one off the counter whatever it finds
ImageUndoBlind(fail) ==
  /\ loop.pc = "image"
  /\ img.cmd.pc = "none"
  /\ savedImageCount' = savedImageCount - 1
  /\ loop' = [loop EXCEPT !.said = "undone"]
  /\ UNCHANGED <<jobVars, tabVars, savedLinkCount, savedLinks, diskVars, history, modeVars>>

\* the undo sub-command; fail is the removal that does not get through; an
\* undo that removed a file is a line of the history, with what it told the
\* operator.
\* A metadata file holds the number, the page URL, the image's name (its
\* second line, which undo reads back) and the caption.
ImageUndo(fail) ==
  /\ loop.pc = "image"
  /\ img.cmd.pc = "none"
  /\ Len(history) <= MaxCmds
  /\ LET metaFilename == FileName("", padNumber(savedImageCount - 1), ".txt")
         found == savedImageCount # 0 /\ metaFilename \in DOMAIN imgMetaDir
         imageFilename == imgMetaDir[metaFilename].image
         undone == found /\ fail # "meta"
     IN  /\ imagesDir' = IF found /\ fail # "image" THEN imagesDir \ {imageFilename}
                         ELSE imagesDir
         /\ imgMetaDir' = IF undone THEN Remove(imgMetaDir, metaFilename) ELSE imgMetaDir
         /\ savedImageCount' = IF undone THEN savedImageCount - 1 ELSE savedImageCount
         /\ loop' = [loop EXCEPT !.said = IF savedImageCount = 0 THEN "nothing to undo"
                                          ELSE IF undone THEN "undone"
                                          ELSE "metadata not found"]
         /\ history' = IF imagesDir' # imagesDir \/ undone
                       THEN Append(history,
                              Report("image undo", loop.url, <<>>, "none", loop'.said,
                                     metaFilename.digits, savedLinkCount, savedLinks, linksFile,
                                     dataDir))
                       ELSE history
  /\ UNCHANGED <<jobVars, tabVars, savedLinkCount, savedLinks, dataDir, linksFile,
                 limiter, copy, img, clipboard>>

\* processImageDownload up to its first await, called by the save
\* sub-command (who = "cmd") or by the saveImage binding (who = "click"),
\* for an image whose URL ends in ext
StartSave(who, ext) ==
  /\ img[who].pc = "none"
  /\ img.started < MaxSaves
  /\ who = "cmd" => loop.pc = "image"
  /\ who = "click" => InMode("image") /\ ~img.isImageSaving
  /\ LET filename == FileName("", padNumber(savedImageCount), ext)
     IN  img' = [img EXCEPT ![who] = [pc |-> "manual", url |-> loop.url,
                                      own |-> filename, count |-> savedImageCount, path |-> filename],
                            !.isImageSaving = (who = "click") \/ @,
                            !.started = @ + 1]
  /\ UNCHANGED <<jobVars, tabVars, loopVars, limiter, copy, imgMetaDir, clipboard>>

\* processImageDownload returns n to its caller, who assigns it to
\* state.savedImageCount
SaveReturns(who, n) ==
  /\ savedImageCount' = n
  /\ img' = [img EXCEPT ![who] = NoImage.cmd,
                        !.isImageSaving = (who # "click") /\ @]

\* getManualFilePath settles: the path is free and comes back with the
\* number; or it is taken and the operator names a number k whose path is
\* free; or the check or the prompt throws, which the try of the save
\* sub-command catches and nothing around the binding does
ManualReturns(who, k) ==
  /\ img[who].pc = "manual"
  /\ LET mine == img[who]
         free == FileName("", padNumber(k), mine.own.ext)
         taken == mine.path \in imagesDir
     IN  \/ /\ IF taken THEN k >= 0 /\ free \notin imagesDir ELSE k = 0
            /\ img' = [img EXCEPT ![who] =
                         [mine EXCEPT !.pc = "download",
                                      !.count = IF taken THEN k ELSE mine.count,
                                      !.path = IF taken THEN free ELSE mine.path]]
         \/ /\ k = -1
            /\ img' = [img EXCEPT ![who] = NoImage.cmd]
  /\ UNCHANGED <<jobVars, tabVars, loopVars, limiter, copy, imgMetaDir, clipboard>>

\* downloadImage settles: the file is written ("ok"); the response is an
\* error ("fail"); or the write stream fails on a file it has created
\* ("partial")
DownloadReturns(who, how) ==
  /\ img[who].pc = "download"
  /\ imagesDir' = IF how = "fail" THEN imagesDir ELSE imagesDir \cup {img[who].path}
  /\ IF how = "ok"
     THEN /\ clipboard' = <<>>
          /\ img' = [img EXCEPT ![who].pc = "caption"]
          /\ UNCHANGED savedImageCount
     ELSE /\ SaveReturns(who, img[who].count)
          /\ UNCHANGED clipboard
  /\ UNCHANGED <<jobVars, tabVars, savedLinkCount, savedLinks, dataDir, linksFile, loop,
                 history, limiter, copy, imgMetaDir>>

\* the operator has copied caption and pressed Enter; fail is "input" when
\* waitForInput throws and "write" when the metadata cannot be written
CaptionReturns(who, caption, fail) ==
  /\ img[who].pc = "caption"
  /\ LET mine == img[who]
         metaFilename == FileName("", mine.own.digits, ".txt")
         metaContent == [number |-> mine.count, url |-> mine.url, image |-> mine.own,
                         caption |-> caption]
     IN  IF fail = "input"
         THEN SaveReturns(who, mine.count) /\ UNCHANGED <<imgMetaDir, clipboard>>
         ELSE IF Trim(caption) = <<>>
         THEN /\ savedImageCount' = mine.count
              /\ img' = [img EXCEPT ![who] = NoImage.cmd,
                                    !.isImageSaving = (who # "click") /\ @,
                                    !.unlinks = @ \cup {mine.path}]
              /\ clipboard' = caption
              /\ UNCHANGED imgMetaDir
         ELSE IF fail = "write"
         THEN /\ SaveReturns(who, mine.count)
              /\ clipboard' = caption
              /\ UNCHANGED imgMetaDir
         ELSE /\ imgMetaDir' = Put(imgMetaDir, metaFilename, metaContent)
              /\ clipboard' = <<>>
              /\ SaveReturns(who, mine.count + 1)
  /\ UNCHANGED <<jobVars, tabVars, savedLinkCount, savedLinks, diskVars, loop, history,
                 limiter, copy>>

\* an fs.unlink that nobody awaited gets its turn
UnlinkDone(filename) ==
  /\ filename \in img.unlinks
  /\ imagesDir' = imagesDir \ {filename}
  /\ img' = [img EXCEPT !.unlinks = @ \ {filename}]
  /\ UNCHANGED <<jobVars, tabVars, stateVars, dataDir, linksFile, loop, history, limiter,
                 copy, imgMetaDir, clipboard>>

\* the session is started with one page open, on an output directory whose
\* images all have their metadata
ModeInit ==
  /\ NewJob
  /\ tabs \in {<<>>, <<1>>}
  /\ activeTabIndex = 0
  /\ hooked = Opened(tabs)
  /\ active = NoCall
  /\ last = Event("none", NoPage, 0, FALSE)
  /\ savedLinkCount = 0
  /\ savedImageCount = 0
  /\ savedLinks = {}
  /\ dataDir = NoFiles
  /\ linksFile = NoText
  /\ \E saved \in 0..1 :
       /\ imagesDir = {FileName("", padNumber(n), ".jpg") : n \in 0..(saved - 1)}
       /\ imgMetaDir = [f \in {FileName("", padNumber(n), ".txt") : n \in 0..(saved - 1)} |->
                          [number |-> ParseInt(f.digits), url |-> <<"u1">>,
                           image |-> FileName("", f.digits, ".jpg"), caption |-> <<"hello">>]]
  /\ loop = NoLoop
  /\ history = <<>>
  /\ limiter = <<>>
  /\ copy = NoCopy
  /\ img = NoImage
  /\ clipboard = <<>>

\* the command loop with its img command, as far as image mode undoes
SessionNext ==
  \/ Startup
  \/ \E url \in Urls, clip \in Clips : SaveCmd(url, clip)
  \/ \E k \in Answers : Answer(k)
  \/ UndoCmd
  \/ EnterMode("image", <<"u1">>)
  \/ \E command \in {"leave", "list"} : ImageCmd(command)
  \/ \E fail \in {"none", "image", "meta"} : ImageUndo(fail)
  \/ \E command \in ReadOnly \cup {"list", "x"} : ReadOnlyCmd(command)
  \/ CmdFails
  \/ Prompt
  \/ Exit
  \/ Fatal

SessionSpec == SessionInit /\ [][SessionNext]_vars

\* a session in which the operator goes into copy mode
CopyNext ==
  \/ Startup
  \/ \E url \in Urls : EnterMode("copy", url)
  \/ \E ancestorsData \in {<<<<"hello">>>>, <<<<" ">>, <<"hello">>, <<>>>>} :
       CaptureElement(ancestorsData)
  \/ \E command \in {"leave", "save", "pick", "trim", "list"}, index \in 0..MaxLen :
       CopyCmd(command, index)

CopySpec == ModeInit /\ [][CopyNext]_vars

\* a session in which the operator saves and undoes images and undoes links
ImageNext ==
  \/ Startup
  \/ EnterMode("image", <<"u1">>)
  \/ \E command \in {"leave", "list"} : ImageCmd(command)
  \/ \E fail \in {"none", "image", "meta"} : ImageUndo(fail)
  \/ \E who \in {"cmd", "click"}, ext \in {".jpg", ".png"} : StartSave(who, ext)
  \/ \E who \in {"cmd", "click"}, k \in Answers : ManualReturns(who, k)
  \/ \E who \in {"cmd", "click"}, how \in {"ok", "fail", "partial"} : DownloadReturns(who, how)
  \/ \E who \in {"cmd", "click"}, caption \in Clips, fail \in {"none", "input", "write"} :
       CaptionReturns(who, caption, fail)
  \/ \E filename \in img.unlinks : UnlinkDone(filename)

ImageSpec == ModeInit /\ [][ImageNext]_vars

(***************************************************************************)
(* Properties.                                                             *)
(***************************************************************************)
\* the calls step j made, in the order it made them
CallsOf(j) == SelectSeq(calls, LAMBDA c : c.step = j)

\* the value the initializer returned
InitResult == calls[1].result.v

\* the value step j received according to the chain: the previous step's
\* result, the initializer's for the first step
Handed(j) == IF j = 1 THEN InitResult ELSE stepLog[j - 1].result.v

\* C1: a run in which nothing throws calls the initializer once and first,
\* then every registered step once and in registration order, hands each step
\* the value the previous one returned, and returns the last step's result
C1_RunInOrder ==
  /\ calls # <<>> =>
       /\ calls[1].what = "init"
       /\ \A c \in 2..Len(calls) : calls[c].what # "init"
  /\ stepLog # <<>> => calls[1].settled
  /\ \A j \in 1..Len(stepLog) :
       /\ stepLog[j].step = j
       /\ stepLog[j].kind = steps[j].kind
       /\ stepLog[j].input = Handed(j)
  /\ pc = "done" =>
       /\ Len(stepLog) = Len(steps)
       /\ \A j \in 1..Len(stepLog) : stepLog[j].settled /\ stepLog[j].result.ok
       /\ outcome.status = "fulfilled"
       /\ outcome.v = Handed(Len(steps) + 1)

C1_Witness ==
  /\ pc = "done"
  /\ Len(steps) = 2
  /\ steps[1].kind # steps[2].kind
  /\ stepLog[1].result.v # stepLog[1].input
  /\ stepLog[2].result.v # stepLog[2].input

\* the successful steps of a kind
DoneOf(kind) ==
  {j \in 1..Len(stepLog) :
     stepLog[j].kind = kind /\ stepLog[j].settled /\ stepLog[j].result.ok}

\* C2: pipeSliced with the identity step returns a sequence equal to the one
\* it received, for every slice size
C2_SlicedIdentity ==
  \A j \in DoneOf("pipeSliced") :
    steps[j].fn = "id" =>
      /\ IsArray(stepLog[j].input)
      /\ stepLog[j].result.v = stepLog[j].input

C2_Witness ==
  /\ pc = "done"
  /\ Len(steps) = 1
  /\ steps[1].kind = "pipeSliced" /\ steps[1].fn = "id" /\ steps[1].sliceSize = 2
  /\ outcome.v = Arr(<<Num(1), Num(0), Arr(<<>>)>>)

\* the window of size k that starts at offset off of q (off from 0)
Window(q, off, k) ==
  [x \in 1..(IF off + k <= Len(q) THEN k ELSE Len(q) - off) |-> q[off + x]]

\* the number of windows of size k over n elements
Windows(n, k) == (n + k - 1) \div k

\* the elements of the array results among rs, in order
RECURSIVE Concat(_)
Concat(rs) ==
  IF rs = <<>> THEN <<>>
  ELSE (IF IsArray(rs[1].result.v) THEN rs[1].result.v.a ELSE <<>>) \o Concat(Tail(rs))

\* C3: pipeSliced calls the step on the windows S[0..k), S[k..2k), ... in
\* order with the offsets 0, k, 2k, ..., and returns the concatenation of the
\* windows' results in window order; [1,2,3,4,5] with k = 2 and a doubling
\* step gives [2,4,6,8,10]
C3_SlicedWindows ==
  /\ \A j \in 1..Len(stepLog) :
       stepLog[j].kind = "pipeSliced" =>
         LET S == stepLog[j].input.a
             k == steps[j].sliceSize
             cs == CallsOf(j)
         IN k >= 1 =>
            /\ Len(cs) <= Windows(Len(S), k)
            /\ \A w \in 1..Len(cs) :
                 /\ cs[w].index = Num((w - 1) * k)
                 /\ cs[w].arg = Arr(Window(S, (w - 1) * k, k))
                 /\ Len(cs[w].arg.a) = k \/ w = Windows(Len(S), k)
                 /\ w < Len(cs) => cs[w].settled
            /\ j \in DoneOf("pipeSliced") =>
                 /\ Len(cs) = Windows(Len(S), k)
                 /\ stepLog[j].result.v = Arr(Concat(cs))
  /\ ( /\ pc = "done"
       /\ steps = <<StepDesc("pipeSliced", "double", 2, <<>>)>>
       /\ InitResult \in ExampleData )
     => outcome.v = Arr(<<Num(2), Num(4), Num(6), Num(8), Num(10)>>)

C3_Witness ==
  /\ pc = "done"
  /\ steps = <<StepDesc("pipeSliced", "double", 2, <<>>)>>
  /\ InitResult \in ExampleData
  /\ Len(CallsOf(1)) = 3
  /\ CallsOf(1)[3].arg = Arr(<<Num(5)>>)

\* the results of the calls cs, in call order
ResultsOf(cs) == [w \in 1..Len(cs) |-> cs[w].result.v]

\* what fn maps the entries of the array S to, entry by entry
Mapped(fn, S) == [x \in 1..Len(S) |-> ApplyEach(fn, S[x], NatToString(x - 1)).v]

\* the falsy values of the language: undefined, null, 0, NaN and ""
Falsy(v) ==
  \/ v.t \in {"undefined", "null"}
  \/ v.t = "number" /\ (v.n = 0 \/ v.s = "NaN")
  \/ v.t = "string" /\ v.s = ""

\* falsy as the specification lists it: the empty collection too
FalsyOrEmpty(v) == Falsy(v) \/ (v.t = "array" /\ v.a = <<>>)

\* C4 as stated: for every sequence S, pipeEachFiltered with the identity
\* step returns what pipeEach returns with it, of the length of S
C4_Original ==
  \A j \in DoneOf("pipeEachFiltered") :
    (steps[j].fn = "id" /\ IsArray(stepLog[j].input)) =>
      /\ stepLog[j].result.v = Arr(Mapped("id", stepLog[j].input.a))
      /\ Len(stepLog[j].result.v.a) = Len(stepLog[j].input.a)

\* C4, amended: for every sequence S without a falsy entry, pipeEachFiltered
\* with the identity step returns what pipeEach returns with it, of the
\* length of S; for every S it returns the non-falsy entries of S in order
C4_FilteredIdentity ==
  \A j \in DoneOf("pipeEachFiltered") :
    (steps[j].fn = "id" /\ IsArray(stepLog[j].input)) =>
      LET S == stepLog[j].input.a
          out == stepLog[j].result.v
      IN /\ out = Arr(SelectSeq(Mapped("id", S), LAMBDA v : ~Falsy(v)))
         /\ (\A x \in 1..Len(S) : ~Falsy(S[x])) =>
              /\ out = Arr(Mapped("id", S))
              /\ Len(out.a) = Len(S)

C4_Witness ==
  /\ pc = "done"
  /\ steps = <<StepDesc("pipeEachFiltered", "id", 0, <<>>)>>
  /\ InitResult = Arr(<<Num(1), Arr(<<>>), Num(1)>>)
  /\ outcome.v = InitResult

\* C5 as stated: pipeEachFiltered leaves out the entries whose result is an
\* empty string, zero, null, absent or an empty collection, and keeps the
\* others in order
C5_Original ==
  \A j \in DoneOf("pipeEachFiltered") :
    stepLog[j].result.v =
      Arr(SelectSeq(ResultsOf(CallsOf(j)), LAMBDA v : ~FalsyOrEmpty(v)))

\* C5, amended: pipeEachFiltered leaves out the entries whose result is an
\* empty string, zero, NaN, null or undefined and keeps every other entry in
\* order, an empty collection included; a step that always returns a falsy
\* value gives an empty output
C5_FilteredDrops ==
  \A j \in DoneOf("pipeEachFiltered") :
    /\ stepLog[j].result.v =
         Arr(SelectSeq(ResultsOf(CallsOf(j)), LAMBDA v : ~Falsy(v)))
    /\ steps[j].fn = "falsy" => stepLog[j].result.v = Arr(<<>>)

C5_Witness ==
  \E j \in DoneOf("pipeEachFiltered") :
    LET rs == ResultsOf(CallsOf(j))
    IN /\ Len(rs) = 3
       /\ \E x \in 1..3 : rs[x] = Num(0)
       /\ \E x \in 1..3 : rs[x] = Arr(<<>>)
       /\ Len(stepLog[j].result.v.a) = 2
       /\ \E x \in 1..2 : stepLog[j].result.v.a[x] = Arr(<<>>)

\* C6: pipeEach calls the step on the entries of the data one at a time in
\* order, each with its own index, and returns one result per entry in that
\* order, falsy results included
C6_EachInOrder ==
  \A j \in 1..Len(stepLog) :
    stepLog[j].kind = "pipeEach" =>
      LET in == stepLog[j].input
          cs == CallsOf(j)
      IN /\ IsArray(in) =>
              /\ Len(cs) <= Len(in.a)
              /\ \A w \in 1..Len(cs) :
                   /\ cs[w].arg = in.a[w]
                   /\ cs[w].index = Str(NatToString(w - 1))
                   /\ w < Len(cs) => cs[w].settled
              /\ j \in DoneOf("pipeEach") =>
                   /\ Len(cs) = Len(in.a)
                   /\ stepLog[j].result.v = Arr(ResultsOf(cs))
                   /\ stepLog[j].result.v = Arr(Mapped(steps[j].fn, in.a))
                   /\ Len(stepLog[j].result.v.a) = Len(in.a)
         /\ in.t \in {"undefined", "null", "number"} =>
              /\ cs = <<>>
              /\ j \in DoneOf("pipeEach") => stepLog[j].result.v = Arr(<<>>)

C6_Witness ==
  /\ pc = "done"
  /\ steps = <<StepDesc("pipeEach", "falsy", 0, <<>>)>>
  /\ Len(InitResult.a) = 3
  /\ outcome.v = Arr(<<Null, Str(""), Num(0)>>)
  /\ CallsOf(1)[3].index = Str("2")

\* what the last successful saveAs step for a filename wrote
LastSaved(filename) ==
  LET js == {j \in DoneOf("saveAs") : steps[j].filename = filename}
  IN IF js = {} THEN NoFile
     ELSE Save(filename, stepLog[CHOOSE j \in js : \A x \in js : x <= j].input).content

C8_SaveAsPassThrough ==
  /\ \A j \in 1..Len(stepLog) :
       stepLog[j].kind = "saveAs" =>
         LET cs == CallsOf(j)
         IN /\ Len(cs) = 1
            /\ cs[1].what = "save"
            /\ cs[1].filename = steps[j].filename
            /\ cs[1].arg = stepLog[j].input
            /\ (cs[1].settled /\ cs[1].result.ok) =>
                 /\ stepLog[j].settled /\ stepLog[j].result.ok
                 /\ stepLog[j].result.v = stepLog[j].input
                 /\ data = stepLog[j].input \/ j < Len(stepLog)
                 /\ j < Len(stepLog) => stepLog[j + 1].input = stepLog[j].input
                 /\ files[steps[j].filename] # NoFile
            /\ (cs[1].settled /\ ~cs[1].result.ok) =>
                 /\ stepLog[j].settled
                 /\ stepLog[j].result = Throw(cs[1].result.e)
  /\ \A filename \in Filenames : files[filename] = LastSaved(filename)

C8_Witness ==
  /\ pc = "done"
  /\ steps = ExampleChain
  /\ InitResult = Arr(<<Num(1)>>)
  /\ files[<<"raw", "json">>].v = Arr(<<Num(1)>>)
  /\ files[<<"notes">>].v = Num(1)
  /\ outcome.v = Num(1)

\* C9: a pipeSliced step that receives anything but an array throws
\* "Data is not an array" without calling its function, and the run fails
\* with that error
C9_SlicedTypeMismatch ==
  \A j \in 1..Len(stepLog) :
    (stepLog[j].kind = "pipeSliced" /\ ~IsArray(stepLog[j].input)) =>
      /\ stepLog[j].settled
      /\ stepLog[j].result = Throw(Err("Error", "Data is not an array"))
      /\ CallsOf(j) = <<>>
      /\ j = Len(stepLog)
      /\ pc = "failed"
      /\ outcome.status = "rejected"
      /\ outcome.e = Err("Error", "Data is not an array")

C9_Witness ==
  /\ pc = "failed"
  /\ Len(steps) = 2
  /\ Len(stepLog) = 2
  /\ steps[1].kind = "pipe"
  /\ steps[2].kind = "pipeSliced"
  /\ IsArray(InitResult)
  /\ stepLog[2].input = Num(1)

\* C10: at most one call is in progress at any time; a step, and a window of
\* a pipeSliced step, starts only after every earlier one has settled
C10_OneAtATime ==
  /\ Cardinality(pending) <= 1
  /\ \A c \in 1..Len(calls) : c < Len(calls) => calls[c].settled
  /\ \A c \in 1..Len(calls) : ~calls[c].settled <=> c \in pending
  /\ \A j \in 1..Len(stepLog) : j < Len(stepLog) => stepLog[j].settled
  /\ \A c \in pending :
       calls[c].what # "init" =>
         /\ calls[c].step = Len(stepLog)
         /\ ~stepLog[Len(stepLog)].settled
  /\ \A c, d \in 1..Len(calls) : c < d => calls[c].step <= calls[d].step

C10_Witness ==
  /\ pc = "slicedAwait"
  /\ stepNo = 2
  /\ stepLog[1].kind = "pipeSliced"
  /\ Len(CallsOf(1)) = 2
  /\ Len(CallsOf(2)) = 2
  /\ Cardinality(pending) = 1

(***************************************************************************)
(* Tab tracking: claims C11 to C15, under TabSpec.                         *)
(***************************************************************************)
\* C11: in every state activeTabIndex is an index of the tab list,
\* 0 <= activeTabIndex < number of tabs, or 0 when no tab is open.
C11_ValidIndex ==
  IF Len(tabs) = 0 THEN activeTabIndex = 0 ELSE activeTabIndex \in 0..(Len(tabs) - 1)

C13_CloseClamps ==
  (last.op = "close" /\ last.handled) =>
    IF Len(tabs) = 0
    THEN activeTabIndex = 0 /\ last.front = NoPage /\ ~last.threw
    ELSE /\ ~last.threw
         /\ last.front = tabs[activeTabIndex + 1]
         /\ last.from >= Len(tabs) => activeTabIndex = Len(tabs) - 1
         /\ last.from < Len(tabs) => activeTabIndex = last.from

\* the last of three tabs was active and has closed
C13_Witness ==
  /\ last.op = "close"
  /\ last.handled
  /\ last.from = 2
  /\ Len(tabs) = 2
  /\ activeTabIndex = 1
  /\ last.front = tabs[2]

\* C14: with n >= 1 open tabs and activeTabIndex = i, an index of the tab
\* list, focusNextTab sets activeTabIndex to (i + 1) mod n and brings that
\* tab to the front; with no open tab it changes nothing.
C14_NextWraps ==
  last.op = "next" =>
    IF Len(tabs) = 0
    THEN activeTabIndex = last.from /\ last.front = NoPage /\ ~last.threw
    ELSE last.from \in 0..(Len(tabs) - 1) =>
           /\ activeTabIndex = (last.from + 1) % Len(tabs)
           /\ last.front = tabs[activeTabIndex + 1]
           /\ ~last.threw

\* focusNextTab has wrapped from the last of three tabs to the first
C14_Witness ==
  /\ last.op = "next"
  /\ Len(tabs) = 3
  /\ last.from = 2
  /\ activeTabIndex = 0
  /\ last.front = tabs[1]

\* C15: with n >= 1 open tabs and activeTabIndex = i, an index of the tab
\* list, focusPrevTab sets activeTabIndex to (i - 1) mod n, from 0 to n - 1
\* and from 1 to 0, and brings that tab to the front; with no open tab it
\* changes nothing.
C15_PrevWraps ==
  last.op = "prev" =>
    IF Len(tabs) = 0
    THEN activeTabIndex = last.from /\ last.front = NoPage
    ELSE last.from \in 0..(Len(tabs) - 1) =>
           /\ activeTabIndex = (last.from - 1 + Len(tabs)) % Len(tabs)
           /\ last.front = tabs[activeTabIndex + 1]

\* C16: right after startup each counter is one past the largest number
\* among the names of its directory that match its pattern
\* (result-<digits>.txt in data, <digits>.<ext> in images), and 0 when no
\* name matches; so when the results on disk are exactly those numbered
\* 0..n-1 the counter is n.
C16_StartupScan ==
  LET resultNumbers == {ParseInt(f.digits) : f \in {g \in DOMAIN dataDir : MatchesResult(g)}}
      imageNumbers == {ParseInt(f.digits) : f \in {g \in imagesDir : MatchesImage(g)}}
      OnePast(numbers) ==
        IF numbers = {} THEN 0
        ELSE 1 + (CHOOSE m \in numbers : \A k \in numbers : k <= m)
  IN  (loop.pc # "off" /\ history[Len(history)].op = "start") =>
        /\ savedLinkCount = OnePast(resultNumbers)
        /\ savedImageCount = OnePast(imageNumbers)
        /\ \A n \in 0..(MaxCmds + 2) :
             {g \in DOMAIN dataDir : MatchesResult(g)}
                 = {ResultName(padNumber(k)) : k \in 0..(n - 1)}
               => savedLinkCount = n

\* a session that started on an empty directory wrote results 0 and 1 and
\* was started again: the counter is 2
C16_Witness ==
  /\ Len(history) >= 4
  /\ history[1].dir = NoFiles
  /\ history[Len(history)].op = "start"
  /\ loop.pc = "idle"
  /\ DOMAIN dataDir = {ResultName(padNumber(0)), ResultName(padNumber(1))}
  /\ savedLinkCount = 2

C18_UndoRestores ==
  \A j \in 2..(Len(history) - 1) :
    (history[j].op = "save" /\ history[j].msg = "saved" /\ history[j + 1].op = "undo") =>
      LET before == history[j - 1]
          after == history[j + 1]
          Bytes(text) == IF text = NoText THEN <<>> ELSE text
      IN  /\ after.links = before.links
          /\ Bytes(after.text) = Bytes(before.text)
          /\ after.dir = before.dir
          /\ after.count = before.count

\* C19: when an undo finds at the decremented number a result whose header
\* records another URL than the last line of the index, or none, it leaves
\* every file of the data directory, removes the last line from the index,
\* removes that URL from the duplicate set and warns of the mismatch.
C19_MismatchKeepsArtifact ==
  \A j \in 2..Len(history) :
    LET before == history[j - 1]
        after == history[j]
        linkLines == ContentLines(before.text)
        lastUrl == linkLines[Len(linkLines)]
        name == ResultName(padNumber(before.count - 1))
    IN  (/\ after.op = "undo"
         /\ before.count > 0
         /\ before.text # NoText
         /\ linkLines # <<>>
         /\ name \in DOMAIN before.dir
         /\ UrlMatch(Split(before.dir[name])[1]) # lastUrl) =>
          /\ after.dir = before.dir
          /\ ContentLines(after.text) = SubSeq(linkLines, 1, Len(linkLines) - 1)
          /\ after.links = before.links \ {lastUrl}
          /\ after.msg = "url mismatch"

\* C20: with every write going through, on an empty output directory a
\* save for u1 writes result-00000.txt, a save for u2 after it writes
\* result-00001.txt, an undo after that deletes result-00001.txt, removes
\* u2 from the duplicate set and brings the counter back to 1, and a save
\* for u2 after that is accepted and writes result-00001.txt again.
C20_EndToEnd ==
  \A u1, u2 \in Urls :
    LET Saves(k, url) ==
          /\ Len(history) >= k
          /\ history[k].op = "save"
          /\ history[k].url = url
          /\ history[k].clip # <<>>
          /\ history[k].fail = "none"
        Wrote(k, n, url) ==
          /\ history[k].msg = "saved"
          /\ history[k].digits = padNumber(n)
          /\ ResultName(padNumber(n)) \in DOMAIN history[k].dir
          /\ UrlMatch(Split(history[k].dir[ResultName(padNumber(n))])[1]) = url
          /\ url \in history[k].links
          /\ history[k].count = n + 1
        first == history # <<>> /\ history[1].dir = NoFiles /\ history[1].text = NoText
                   /\ u1 # u2 /\ Saves(2, u1)
        second == first /\ Saves(3, u2)
        third == second /\ Len(history) >= 4 /\ history[4].op = "undo"
                   /\ history[4].fail = "none"
        fourth == third /\ Saves(5, u2)
    IN  /\ first => Wrote(2, 0, u1)
        /\ second => Wrote(3, 1, u2)
        /\ third =>
             /\ history[4].msg = "undone"
             /\ DOMAIN history[4].dir = {ResultName(padNumber(0))}
             /\ history[4].links = {u1}
             /\ history[4].count = 1
        /\ fourth => Wrote(5, 1, u2)

\* the four commands have been given and result-00001.txt is back
C20_Witness ==
  /\ Len(history) = 5
  /\ history[1].dir = NoFiles
  /\ history[1].text = NoText
  /\ history[2].op = "save" /\ history[2].url = <<"u1">> /\ history[2].msg = "saved"
  /\ history[3].op = "save" /\ history[3].url = <<"u2">> /\ history[3].msg = "saved"
  /\ history[4].op = "undo" /\ history[4].msg = "undone"
  /\ history[5].op = "save" /\ history[5].url = <<"u2">> /\ history[5].msg = "saved"
  /\ DOMAIN dataDir = {ResultName(padNumber(0)), ResultName(padNumber(1))}
  /\ savedLinkCount = 2

\* C21: a save for a URL of the duplicate set, or with an empty or blank
\* clipboard, is rejected: it leaves the data directory, links.txt, the
\* counter and the duplicate set as they are.  A save that reports success
\* adds exactly one result file, which records the URL, appends the URL and
\* a line feed to links.txt, adds the URL to the duplicate set and leaves
\* the counter one past the number of the file: one more than it was,
\* unless the operator gave another number.
C21_SaveEffects ==
  [][/\ \A url \in Urls, clip \in Clips :
          (SaveCmd(url, clip) /\ (url \in savedLinks \/ \A k \in 1..Len(clip) : clip[k] = " ")) =>
            /\ loop'.pc = "told"
            /\ loop'.said \in {"duplicate", "empty"}
            /\ UNCHANGED <<dataDir, linksFile, savedLinkCount, savedLinks, history>>
     /\ (/\ Len(history') = Len(history) + 1
         /\ history'[Len(history')].op = "save"
         /\ history'[Len(history')].msg = "saved") =>
          LET entry == history'[Len(history')]
              name == ResultName(entry.digits)
          IN  /\ entry.url \notin savedLinks
              /\ entry.clip # <<>>
              /\ name \notin DOMAIN dataDir
              /\ DOMAIN dataDir' = DOMAIN dataDir \cup {name}
              /\ \A f \in DOMAIN dataDir : dataDir'[f] = dataDir[f]
              /\ UrlMatch(Split(dataDir'[name])[1]) = entry.url
              /\ linksFile' = (IF linksFile = NoText THEN <<>> ELSE linksFile)
                                \o entry.url \o <<NL>>
              /\ savedLinks' = savedLinks \cup {entry.url}
              /\ savedLinkCount' = ParseInt(entry.digits) + 1
              /\ loop.pc = "idle" => savedLinkCount' = savedLinkCount + 1]_vars

\* a save has been accepted and the save after it, for the same URL, has
\* been rejected as a duplicate
C21_Witness ==
  /\ loop.pc = "told"
  /\ loop.said = "duplicate"
  /\ history[Len(history)].op = "save"
  /\ history[Len(history)].msg = "saved"
  /\ history[Len(history)].count = savedLinkCount

C23_FailureCaught ==
  [][/\ CmdFails => loop'.pc = "told" /\ loop'.said = "error"
     /\ (Len(history') = Len(history) + 1 /\ history'[Len(history')].fail # "none") =>
          /\ loop'.pc = "told"
          /\ loop'.said \in {"error", "file not found"}
     /\ loop.pc = "told" => loop'.pc = "idle"
     /\ (loop.pc # "off" /\ loop'.pc = "off") =>
          /\ loop.pc = "idle"
          /\ loop'.said \in {"exiting", "fatal error"}]_vars

\* a save wrote its file and failed to append the line; the loop is back
\* at the prompt
C23_Witness ==
  /\ loop.pc = "idle"
  /\ history[Len(history)].op = "save"
  /\ history[Len(history)].fail = "append"
  /\ ResultName(history[Len(history)].digits) \in DOMAIN dataDir

\* C24: the step that ends the loop is the exit command or a fatal error
\* at the prompt, and it closes the browser, which was open, once; while
\* the loop runs the browser has not been closed.
C24_ClosedOnce ==
  [][/\ (loop.pc # "off" /\ loop'.pc = "off") =>
          /\ loop.pc = "idle"
          /\ loop'.said \in {"exiting", "fatal error"}
          /\ loop.closed = 0
          /\ loop'.closed = 1
     /\ loop'.pc # "off" => loop'.closed = 0]_vars

\* the prompt failed, the loop ended and the browser was closed
C24_Witness ==
  /\ loop.pc = "off"
  /\ loop.said = "fatal error"
  /\ loop.closed = 1
  /\ Len(history) >= 2

\* C25 as stated: in a save, links.txt changes only when the result file
\* has been written, the duplicate set and the counter change only when the
\* line has been appended, and a save that fails leaves links.txt as it
\* was.
C25_WriteThenAppend ==
  [][(Len(history') = Len(history) + 1 /\ history'[Len(history')].op = "save") =>
       LET entry == history'[Len(history')]
           name == ResultName(entry.digits)
           appended == linksFile' = (IF linksFile = NoText THEN <<>> ELSE linksFile)
                                      \o entry.url \o <<NL>>
       IN  /\ linksFile' # linksFile =>
                /\ appended
                /\ name \in DOMAIN dataDir'
                /\ UrlMatch(Split(dataDir'[name])[1]) = entry.url
           /\ (savedLinks' # savedLinks \/ savedLinkCount' # savedLinkCount) => appended
           /\ entry.msg # "saved" => linksFile' = linksFile]_vars

\* C25 amended: as above, except that the counter may change before the
\* write, and only by taking the number the operator gave when asked.
C25_WriteThenAppendOrAsked ==
  [][(Len(history') = Len(history) + 1 /\ history'[Len(history')].op = "save") =>
       LET entry == history'[Len(history')]
           name == ResultName(entry.digits)
           appended == linksFile' = (IF linksFile = NoText THEN <<>> ELSE linksFile)
                                      \o entry.url \o <<NL>>
       IN  /\ linksFile' # linksFile =>
                /\ appended
                /\ name \in DOMAIN dataDir'
                /\ UrlMatch(Split(dataDir'[name])[1]) = entry.url
           /\ savedLinks' # savedLinks => appended
           /\ savedLinkCount' # savedLinkCount =>
                \/ appended /\ savedLinkCount' = ParseInt(entry.digits) + 1
                \/ loop.pc = "collision" /\ savedLinkCount' = ParseInt(entry.digits)
           /\ entry.msg # "saved" => linksFile' = linksFile /\ savedLinks' = savedLinks]_vars

\* a save wrote its result file and failed at the line of links.txt: the
\* file is there, the URL is neither in links.txt nor in the set
C25_Witness ==
  /\ loop.pc = "told"
  /\ loop.said = "error"
  /\ LET entry == history[Len(history)]
     IN  /\ entry.op = "save"
         /\ entry.fail = "append"
         /\ ResultName(entry.digits) \in DOMAIN dataDir
         /\ entry.url \notin savedLinks
         /\ linksFile = history[Len(history) - 1].text

\* C26: getActiveTab returns no tab only when there was none, and then it
\* has brought nothing to the foreground; the tab it returns otherwise is
\* the tab it brought to the foreground, whatever was delivered while it
\* was waiting.
C26_ConsistentRead ==
  last.op = "got" =>
    /\ last.result \notin Pages => last.result = NoPage /\ last.front = NoPage
    /\ last.result \in Pages => last.result = last.front

\* C27: while the session runs and the data directory holds result files,
\* the largest number among them is at least savedLinkCount - 1.
C27_CounterNearMax ==
  LET numbers == {ParseInt(f.digits) : f \in {g \in DOMAIN dataDir : MatchesResult(g)}}
  IN  (loop.pc # "off" /\ numbers # {}) =>
        \E m \in numbers : m >= savedLinkCount - 1

\* C28: whenever the loop waits for a command, savedLinkCount is what the
\* scan of the data directory would give at a restart.
C28_CounterIsScan ==
  loop.pc = "idle" => savedLinkCount = getLastResultFileNumber(DOMAIN dataDir)

\* C29: whenever the loop waits for a command, savedLinks is the set of the
\* lines of links.txt, which is the set a restart would load.
C29_LinksAreLines ==
  loop.pc = "idle" => savedLinks = loadExistingLinks(linksFile)

\* C30: check, view, next, prev, list and input that is no command leave
\* the counters, the links in memory, links.txt, the data directory and the
\* images directory as they were and hand over to the prompt, which waits
\* for the next command; input that is no command is told so.
C30_ReadOnlyFrame ==
  [][/\ \A command \in ReadOnly \cup {"list", "x"} :
          ReadOnlyCmd(command) =>
            /\ UNCHANGED <<savedLinkCount, savedImageCount, savedLinks>>
            /\ UNCHANGED <<linksFile, dataDir, imagesDir>>
            /\ loop'.pc = "told"
            /\ command \notin ReadOnly => loop'.said = "unknown command"
     /\ (loop.pc = "told" /\ loop.said \in {"shown", "unknown command"}) =>
          loop'.pc = "idle"]_vars

\* input that is no command was given after a save and has been answered
C30_Witness ==
  /\ loop.pc = "told"
  /\ loop.said = "unknown command"
  /\ history[Len(history)].op = "save"
  /\ history[Len(history)].msg = "saved"
  /\ savedLinks # {}

\* C36: when a tab other than the active one closes and its close handler
\* has run, the page at activeTabIndex is the page that was there before.
C36_CloseOtherKeepsActive ==
  [][\A page \in Pages :
       (/\ CloseTab(page)
        /\ last'.handled
        /\ activeTabIndex < Len(tabs)
        /\ tabs[activeTabIndex + 1] # page) =>
         /\ activeTabIndex' < Len(tabs')
         /\ tabs'[activeTabIndex' + 1] = tabs[activeTabIndex + 1]]_vars

\* C39: a pipeSliced step over n elements with a window size k >= 1 never
\* calls its step function more than ceil(n / k) times and has called it
\* exactly that often when it returns; with a window size below 1 the loop
\* of a step over a non-empty array stays below the array's length and the
\* step, and with it run(), never settles.
C39_SlicedCalls ==
  \A j \in 1..Len(stepLog) :
    (stepLog[j].kind = "pipeSliced" /\ IsArray(stepLog[j].input)) =>
      LET n == Len(stepLog[j].input.a)
          k == steps[j].sliceSize
          count == Len(CallsOf(j))
      IN  IF k >= 1
          THEN LET ceil == CHOOSE c \in 0..n : c * k >= n /\ (c = 0 \/ (c - 1) * k < n)
               IN  /\ count <= ceil
                   /\ stepLog[j].settled => count = ceil
          ELSE /\ n = 0 => count = 0
               /\ n > 0 =>
                    /\ ~stepLog[j].settled
                    /\ stepNo = j
                    /\ pc \in {"sliced", "slicedAwait"}
                    /\ i < n
                    /\ outcome.status = "pending"

\* three elements have gone through windows of two in two calls
C39_Witness ==
  /\ pc = "done"
  /\ Len(steps) = 1
  /\ steps[1].kind = "pipeSliced" /\ steps[1].sliceSize = 2
  /\ Len(stepLog[1].input.a) = 3
  /\ Len(CallsOf(1)) = 2

\* C40: a pipeSliced step whose windows gave results that are no arrays
\* settles without an error, and what it returns is the concatenation of
\* the arrays among the windows' results: the empty array when no window
\* gave one.
C40_NonArraysDropped ==
  \A j \in 1..Len(stepLog) :
    LET cs == CallsOf(j)
        arrays == SelectSeq(cs, LAMBDA c : IsArray(c.result.v))
        Flat(k) == arrays[k].result.v.a
        joined == IF Len(arrays) = 0 THEN <<>>
                  ELSE IF Len(arrays) = 1 THEN Flat(1)
                  ELSE IF Len(arrays) = 2 THEN Flat(1) \o Flat(2)
                  ELSE Flat(1) \o Flat(2) \o Flat(3)
    IN  (/\ stepLog[j].kind = "pipeSliced"
         /\ stepLog[j].settled
         /\ IsArray(stepLog[j].input)) =>
          /\ stepLog[j].result.ok
          /\ Len(arrays) <= 3 => stepLog[j].result.v = Arr(joined)
          /\ arrays = <<>> => stepLog[j].result.v = Arr(<<>>)

\* windows of one element gave an array, null and a number: the step has
\* returned the first window
C40_Witness ==
  /\ pc = "done"
  /\ steps = <<StepDesc("pipeSliced", "skip", 1, <<>>)>>
  /\ Len(CallsOf(1)) = 3
  /\ CallsOf(1)[2].result.v = Null
  /\ CallsOf(1)[3].result.v = Num(1)
  /\ outcome.v = Arr(<<stepLog[1].input.a[1]>>)

\* C34: in every interval of length windowMs at most `limit` calls of
\* checkLimit return, whenever the callers arrive
C34_WindowLimit ==
  \A from \in 0..MaxTime :
    LET RECURSIVE Admitted(_)
        Admitted(t) ==
          IF t >= from + limiter.window \/ t > MaxTime THEN 0
          ELSE limiter.admitted[t] + Admitted(t + 1)
    IN  Admitted(from) <= limiter.limit

\* C31: when a save of image mode has returned, every download, write and
\* removal it started is over: no removal waits in the background
C31_NothingPending == img.unlinks = {}

\* C32: no step of copy mode writes to disk or changes a counter or the
\* duplicate set; the clipboard is written by save with text picked that is
\* not blank, and by nothing else, and only then handleCopyMode returns
\* true; leave returns false; save with nothing picked stays in copy mode
C32_CopyFrame ==
  [][/\ \A command \in {"leave", "save", "pick", "trim", "list"}, index \in 0..MaxLen :
          CopyCmd(command, index) =>
            LET saves == command = "save" /\ Trim(copy.text) # <<>>
            IN  /\ UNCHANGED <<stateVars, diskVars, imgMetaDir>>
                /\ saves => clipboard' = copy.text /\ copy'.shouldSave /\ loop'.pc = "idle"
                /\ ~saves => UNCHANGED clipboard /\ ~copy'.shouldSave
                /\ command = "leave" => loop'.pc = "idle"
                /\ command = "save" /\ ~saves => loop'.pc = "copy"
     /\ (\E url \in Urls : EnterMode("copy", url)) \/ CaptureElement(copy'.ancestors)
          => UNCHANGED <<stateVars, diskVars, imgMetaDir, clipboard>>
    ]_vars

\* the operator has picked a text, perhaps trimmed it, and left with leave
C32_Witness ==
  /\ loop.pc = "idle"
  /\ loop.said = "leaving"
  /\ copy.ancestors # <<>>
  /\ copy.text = <<"hello">>
  /\ ~copy.shouldSave
  /\ clipboard = <<>>

\* C33: whenever no image save is under way, every numbered image has the
\* metadata file of its number, which records that number and names that
\* image, and every metadata file names an image that exists
C33_ImagesHaveMetadata ==
  img.cmd.pc = "none" /\ img.click.pc = "none" =>
    /\ \A f \in imagesDir :
         MatchesImage(f) =>
           LET metaFilename == FileName("", f.digits, ".txt")
           IN  /\ metaFilename \in DOMAIN imgMetaDir
               /\ imgMetaDir[metaFilename].number = ParseInt(f.digits)
               /\ imgMetaDir[metaFilename].image = f
    /\ \A m \in DOMAIN imgMetaDir : imgMetaDir[m].image \in imagesDir

\* C35: a save of the save sub-command and a click-triggered save that
\* overlap work under different image numbers
C35_DistinctNumbers ==
  img.cmd.pc \in {"download", "caption"} /\ img.click.pc \in {"download", "caption"} =>
    img.cmd.count # img.click.count

\* C37: once the saveImage callback that set isImageSaving has ended, the
\* flag is false again
C37_GuardClears == img.click.pc = "none" => ~img.isImageSaving

\* C38: neither counter is ever negative; an undo at counter 0 changes
\* neither the counters, the duplicate set, the index nor any artifact; and
\* an undo that finds no line in the index (text) or no metadata file of the
\* last number (image) leaves its counter as it was
C38_UndoGuards ==
  [][/\ savedLinkCount' >= 0
     /\ savedImageCount' >= 0
     /\ UndoCmd /\ savedLinkCount = 0 => UNCHANGED <<stateVars, diskVars, imgMetaDir>>
     /\ UndoCmd /\ (linksFile = NoText \/ ContentLines(linksFile) = <<>>)
          => UNCHANGED savedLinkCount
     /\ \A fail \in {"none", "image", "meta"} :
          ImageUndo(fail) =>
            /\ savedImageCount = 0 => UNCHANGED <<stateVars, diskVars, imgMetaDir>>
            /\ (/\ savedImageCount # 0
                /\ FileName("", padNumber(savedImageCount - 1), ".txt") \notin DOMAIN imgMetaDir)
                 => UNCHANGED savedImageCount
    ]_vars

\* both links have been undone, the last image has been undone, and a
\* further image undo has found no metadata file and left the counter
C38_Witness ==
  /\ savedLinkCount = 0
  /\ Len(history) >= 3
  /\ loop.pc = "image"
  /\ loop.said = "metadata not found"
  /\ savedImageCount = 3
  /\ imgMetaDir = NoFiles

====
